---------------------------- MODULE Spec2Model ----------------------------
(***************************************************************************)
(* Model of the Steam watch plugin (src/main.py, src/steam_api.py,         *)
(* src/steam_store.py): the player-status poll pass of SteamWatch, its     *)
(* per-binding classification with the pending end-game debounce, and the  *)
(* write-back of the bindings list (Spec); the game-news pass and the      *)
(* subscribe command (SpecNews); the bind and unbind commands next to the  *)
(* player-status pass (SpecCmd); all commands next to both passes, with    *)
(* the lock and the saves of the document (SpecAll); initialize, terminate *)
(* and the registered poll loop task (SpecLife); the poll loop itself with *)
(* its sleeps, its error handler and its cancellation (SpecLoop); the      *)
(* enrichment, rendering and dispatch of the change events (SpecPush).     *)
(***************************************************************************)
EXTENDS Integers, Sequences, FiniteSets, TLC

(***************************************************************************)
(* Bounds of the model.                                                    *)
(***************************************************************************)
\* largest value of int(time.time()) the model lets the clock reach
MaxClock == 4
\* largest number of seconds the clock advances between two poll iterations
MaxTick == 2
\* largest number of bindings in the loaded document
MaxBindings == 2
\* largest app id a player summary carries in "gameid"
MaxAppId == 2

(***************************************************************************)
(* Value domains.                                                          *)
(***************************************************************************)
\* steamid64 values of the accounts that can be watched
Accounts == {"s1", "s2"}
\* steamid64 values of the accounts the loaded document watches
LoadedAccounts == {"s1"}
\* group ids; a binding's session (unified_msg_origin) is one per group
Groups == {"g1", "g2"}
\* "gameextrainfo" values a summary can carry ("" when the field is missing)
GameTitles == {"", "G"}
\* f"App {appid}" for appid = 1, 2, ...
AppLabels == <<"App 1", "App 2", "App 3", "App 4">>

AppLabel(appid) == AppLabels[appid]

\* a player summary of GetPlayerSummaries: personastate, gameid (0 when the
\* field is missing or not all digits), gameextrainfo
Summaries ==
    {p \in [personastate : {0, 1}, gameid : 0..MaxAppId,
            gameextrainfo : GameTitles] :
        (p.gameid # 0 \/ p.gameextrainfo # "") => p.personastate = 1}

\* players.get(sid) is None
Absent == [personastate |-> -1, gameid |-> 0, gameextrainfo |-> ""]

\* b.get("pending_endgame") is None (or the key is missing)
NoMarker ==
    [set |-> FALSE, old_appid |-> 0, old_game |-> "", start_ts |-> 0,
     pending_state |-> ""]

VARIABLES
    clock,       \* int(time.time())
    bindings,    \* self._bindings
    stored,      \* "bindings" of the persisted document (state.json)
    pc,          \* position of the poll loop task
    snapshot,    \* the pass's local copy `bindings`
    players,     \* the pass's fetched summaries, by steamid64 (Absent: no entry)
    updates,     \* the pass's `updates`, by binding id
    changes,     \* the pass's `changes_by_session`
    outbox,      \* messages passed to context.send_message in this pass
    lastPass,    \* history: per binding id, the last returned pass that observed
                 \* the binding and wrote back
    lock,        \* holder of self._lock ("free" when nobody holds it)
    subs,        \* self._game_subscriptions
    storedSubs,  \* "game_subscriptions" of the persisted document
    nsnap,       \* the news pass's local copy `subs`
    nidx,        \* index in `subs` of the news pass's loop
    nupdates,    \* the news pass's `updates`, by subscription id
    newsOutbox,  \* news messages passed to context.send_message in this pass
    fetched,     \* history: what _fetch_latest_news returned in this pass, by
                 \* subscription id
    lastNews,    \* history: per subscription id, the gid of the message the
                 \* last returned news pass that wrote back dispatched for it
                 \* ("" when it dispatched none)
    cmd,         \* the command handlers in flight, by task
    nextId,      \* number of uuid4 ids drawn so far
    reply,       \* the text the handler that returned last has returned, and
                 \* the record it had built
    poll_task,   \* self._poll_task of every plugin instance
    stop,        \* self._stop of every plugin instance
    global_poll_task,  \* SteamWatch._global_poll_task
    tasks,       \* the poll loop tasks created so far and their progress
    calls,       \* the initialize and terminate calls in flight
    config,      \* str(config["poll_interval_sec"]), character by character
    poll_interval_sec,  \* self.poll_interval_sec
    delay,       \* argument of the asyncio.sleep the poll loop is in (0 when
                 \* it is in none)
    enrich,      \* what the collaborators answered to the enrichment of this
                 \* pass's change events, by binding id
    file,        \* state.json as the file system holds it
    loaded,      \* what SteamStateStore.load_state returned last
    nick,        \* the pass's nickname_cache_by_group, by group id
    endedSince   \* history: per binding id, a written-back pass emitted a
                 \* game-ended event and none has observed in_game since

pollVars == <<clock, bindings, stored, pc, snapshot, players, updates, changes,
              outbox, lastPass>>
newsVars == <<subs, storedSubs, nsnap, nidx, nupdates, newsOutbox, fetched,
              lastNews>>
cmdVars == <<cmd, nextId, reply>>
auxVars == <<file, loaded, nick, endedSince>>
loopVars == <<config, poll_interval_sec, delay, enrich, auxVars>>
lifeVars == <<poll_task, stop, global_poll_task, tasks, calls, loopVars>>

\* what a player-status pass that runs alone never touches
otherVars == <<lock, newsVars, cmdVars, lifeVars>>

vars == <<pollVars, otherVars>>

BindingIds == {"b1", "b2", "b3", "b4", "b5", "b6"}

\* session of a group (event.unified_msg_origin of a message of that group)
SessionOf(group_id) == group_id

(***************************************************************************)
(* SteamApi.extract_player_state                                           *)
(***************************************************************************)
extract_player_state(player) ==
    LET game_name == player.gameextrainfo
        appid == player.gameid
    IN  IF game_name # "" \/ appid # 0
        THEN [state |-> "in_game", appid |-> appid,
              game |-> IF game_name # "" THEN game_name ELSE AppLabel(appid)]
        ELSE IF player.personastate = 0
        THEN [state |-> "offline", appid |-> 0, game |-> ""]
        ELSE [state |-> "online", appid |-> 0, game |-> ""]


(***************************************************************************)
(* Python's `x or y` on integers and on strings.                           *)
(***************************************************************************)
OrInt(x, y) == IF x # 0 THEN x ELSE y

OrStr(x, y) == IF x # "" THEN x ELSE y

Max0(x) == IF x > 0 THEN x ELSE 0

EndStates == {"online", "offline"}

(***************************************************************************)
(* The change dict appended to changes_by_session[session].  `bid` is not  *)
(* a key of the dict: it names the binding whose loop iteration appended   *)
(* the dict.  steam_name, group_nick and avatar_url are left out.          *)
(***************************************************************************)
change_event(b, old_state, old_appid, old_game, st, session_secs, jitter) ==
    [bid |-> b.id,
     steamid64 |-> b.steamid64,
     old_state |-> old_state,
     old_appid |-> old_appid,
     old_game |-> old_game,
     new_state |-> st.state,
     new_appid |-> st.appid,
     new_game |-> OrStr(st.game, IF st.appid # 0 THEN AppLabel(st.appid) ELSE ""),
     session_secs |-> session_secs,
     network_jitter |-> jitter]

\* recent_states: append the observed state, keep the last three
push_recent_states(recent_states, new_state) ==
    LET rs == Append(recent_states, new_state)
    IN  IF Len(rs) > 3 THEN SubSeq(rs, Len(rs) - 2, Len(rs)) ELSE rs

\* mutant of adopt_baseline: the game name is not adopted
adopt_baseline_without_name(b, st, now_ts) ==
    [b |-> [b EXCEPT !.last_state = st.state,
                     !.last_appid = st.appid,
                     !.last_change_ts = now_ts],
     ev |-> <<>>]

\* `if not old_state:` adopt the observation as baseline, no event
adopt_baseline(b, st, now_ts) ==
    [b |-> [b EXCEPT !.last_state = st.state,
                     !.last_appid = st.appid,
                     !.last_game_name = st.game,
                     !.last_change_ts = now_ts],
     ev |-> <<>>]

\* mutant of is_changed: a change of game is not a change
is_changed_state_only(old_state, old_appid, st) == st.state # old_state

\* mutant of is_changed: every in_game observation is a change
is_changed_any_in_game(old_state, old_appid, st) ==
    st.state # old_state \/ st.state = "in_game"

\* `changed = new_state != old_state or (in_game and appid differs)`
is_changed(old_state, old_appid, st) ==
    st.state # old_state \/ (st.state = "in_game" /\ st.appid # old_appid)

\* mutant of marker_start_ts: the duration runs from the last change
marker_start_ts_last_change(b, now_ts) == OrInt(b.last_change_ts, now_ts)

\* the marker's start_ts as both end-game branches read it
marker_start_ts(b, now_ts) ==
    OrInt(b.pending_endgame.start_ts, OrInt(b.last_change_ts, now_ts))

\* session_secs = max(0, now_ts - pending_start_ts)
endgame_session_secs(b, now_ts) == Max0(now_ts - marker_start_ts(b, now_ts))

\* a confirmation that emits its event and leaves the marker in place
confirm_endgame_keeping_marker(b, st, now_ts) ==
    LET pending_old_appid == OrInt(b.pending_endgame.old_appid, b.last_appid)
        pending_old_game ==
            OrStr(b.pending_endgame.old_game, b.last_game_name)
        session_secs == endgame_session_secs(b, now_ts)
    IN  [b |-> [b EXCEPT !.pending_endgame = b.pending_endgame,
                         !.in_game_since_ts = 0,
                         !.last_change_ts = now_ts],
         ev |-> IF b.session # ""
                THEN <<change_event(b, "in_game", pending_old_appid,
                                    pending_old_game, st, session_secs, FALSE)>>
                ELSE <<>>]

\* marker set, same online/offline state observed again: the end of the game
\* is confirmed
confirm_endgame(b, st, now_ts) ==
    LET pending_old_appid == OrInt(b.pending_endgame.old_appid, b.last_appid)
        pending_old_game ==
            OrStr(b.pending_endgame.old_game, b.last_game_name)
        session_secs == endgame_session_secs(b, now_ts)
    IN  [b |-> [b EXCEPT !.pending_endgame = NoMarker,
                         !.in_game_since_ts = 0,
                         !.last_change_ts = now_ts],
         ev |-> IF b.session # ""
                THEN <<change_event(b, "in_game", pending_old_appid,
                                    pending_old_game, st, session_secs, FALSE)>>
                ELSE <<>>]

\* mutant of new_marker: the marker starts at the pass time
new_marker_starting_now(b, st, now_ts) ==
    [set |-> TRUE,
     old_appid |-> b.last_appid,
     old_game |-> b.last_game_name,
     start_ts |-> now_ts,
     pending_state |-> st.state]

\* the marker recorded when in_game is followed by online/offline
new_marker(b, st, now_ts) ==
    [set |-> TRUE,
     old_appid |-> b.last_appid,
     old_game |-> b.last_game_name,
     start_ts |-> OrInt(b.in_game_since_ts, OrInt(b.last_change_ts, now_ts)),
     pending_state |-> st.state]

\* old_state of the event emitted when a marker is followed by in_game
jitter_old_state(pending_endgame, old_state) ==
    OrStr(pending_endgame.pending_state, old_state)

\* mutant of network_jitter_flag: the pending state is compared with in_game
network_jitter_flag_in_game(pending_endgame) ==
    pending_endgame.pending_state = "in_game"

\* `is_network_jitter = pending_state in {"online", "offline"}`
network_jitter_flag(pending_endgame) ==
    pending_endgame.pending_state \in EndStates

\* mutant of next_in_game_since_ts: a confirmed exit does not clear it
next_in_game_since_ts_kept(b, st, now_ts, emit_change, change_old_state) ==
    IF st.state = "in_game" /\ st.appid > 0 THEN now_ts
    ELSE b.in_game_since_ts

\* mutant of next_in_game_since_ts: set on entering in_game with any appid
next_in_game_since_ts_any_appid(b, st, now_ts, emit_change, change_old_state) ==
    IF st.state = "in_game" THEN now_ts
    ELSE IF emit_change /\ change_old_state = "in_game" /\ st.state \in EndStates
    THEN 0
    ELSE b.in_game_since_ts

\* in_game_since_ts after a recorded change
next_in_game_since_ts(b, st, now_ts, emit_change, change_old_state) ==
    IF st.state = "in_game" /\ st.appid > 0 THEN now_ts
    ELSE IF emit_change /\ change_old_state = "in_game" /\ st.state \in EndStates
    THEN 0
    ELSE b.in_game_since_ts

\* a recorded change in which a return to the game keeps the marker
record_change_keeping_marker(b, st, now_ts) ==
    LET old_state == b.last_state
        old_appid == b.last_appid
        old_game_name == b.last_game_name
        pending_endgame == b.pending_endgame
        to_pending == old_state = "in_game" /\ st.state \in EndStates
        from_jitter == ~to_pending /\ pending_endgame.set /\ st.state = "in_game"
        toggled == /\ ~to_pending
                   /\ ~from_jitter
                   /\ pending_endgame.set
                   /\ old_state \in EndStates
                   /\ st.state \in EndStates
        emit_change == ~to_pending
        is_network_jitter ==
            from_jitter /\ network_jitter_flag(pending_endgame)
        change_old_state ==
            IF from_jitter THEN jitter_old_state(pending_endgame, old_state)
            ELSE IF toggled THEN "in_game"
            ELSE old_state
        change_old_appid ==
            IF from_jitter \/ toggled
            THEN OrInt(pending_endgame.old_appid, old_appid)
            ELSE old_appid
        change_old_game ==
            IF from_jitter \/ toggled
            THEN OrStr(pending_endgame.old_game, old_game_name)
            ELSE old_game_name
        session_secs == IF toggled THEN endgame_session_secs(b, now_ts) ELSE 0
        marker == IF to_pending THEN new_marker(b, st, now_ts)
                  ELSE IF toggled THEN NoMarker
                  ELSE pending_endgame
    IN  [b |-> [b EXCEPT !.pending_endgame = marker,
                         !.last_state = st.state,
                         !.last_appid = st.appid,
                         !.last_game_name = st.game,
                         !.last_change_ts = now_ts,
                         !.in_game_since_ts =
                             next_in_game_since_ts(b, st, now_ts, emit_change,
                                                   change_old_state)],
         ev |-> IF emit_change /\ b.session # ""
                THEN <<change_event(b, change_old_state, change_old_appid,
                                    change_old_game, st, session_secs,
                                    is_network_jitter)>>
                ELSE <<>>]

\* a recorded change in which every change between online and offline
\* counts as the end of a game
record_change_toggle_ends(b, st, now_ts) ==
    LET old_state == b.last_state
        old_appid == b.last_appid
        old_game_name == b.last_game_name
        pending_endgame == b.pending_endgame
        to_pending == old_state = "in_game" /\ st.state \in EndStates
        from_jitter == ~to_pending /\ pending_endgame.set /\ st.state = "in_game"
        toggled == /\ ~to_pending
                   /\ ~from_jitter
                   /\ old_state \in EndStates
                   /\ st.state \in EndStates
        emit_change == ~to_pending
        is_network_jitter ==
            from_jitter /\ network_jitter_flag(pending_endgame)
        change_old_state ==
            IF from_jitter THEN jitter_old_state(pending_endgame, old_state)
            ELSE IF toggled THEN "in_game"
            ELSE old_state
        change_old_appid ==
            IF from_jitter \/ toggled
            THEN OrInt(pending_endgame.old_appid, old_appid)
            ELSE old_appid
        change_old_game ==
            IF from_jitter \/ toggled
            THEN OrStr(pending_endgame.old_game, old_game_name)
            ELSE old_game_name
        session_secs == IF toggled THEN endgame_session_secs(b, now_ts) ELSE 0
        marker == IF to_pending THEN new_marker(b, st, now_ts)
                  ELSE IF from_jitter \/ toggled THEN NoMarker
                  ELSE pending_endgame
    IN  [b |-> [b EXCEPT !.pending_endgame = marker,
                         !.last_state = st.state,
                         !.last_appid = st.appid,
                         !.last_game_name = st.game,
                         !.last_change_ts = now_ts,
                         !.in_game_since_ts =
                             next_in_game_since_ts(b, st, now_ts, emit_change,
                                                   change_old_state)],
         ev |-> IF emit_change /\ b.session # ""
                THEN <<change_event(b, change_old_state, change_old_appid,
                                    change_old_game, st, session_secs,
                                    is_network_jitter)>>
                ELSE <<>>]

\* `if changed:` the observation differs from the persisted state
record_change(b, st, now_ts) ==
    LET old_state == b.last_state
        old_appid == b.last_appid
        old_game_name == b.last_game_name
        pending_endgame == b.pending_endgame
        to_pending == old_state = "in_game" /\ st.state \in EndStates
        from_jitter == ~to_pending /\ pending_endgame.set /\ st.state = "in_game"
        toggled == /\ ~to_pending
                   /\ ~from_jitter
                   /\ pending_endgame.set
                   /\ old_state \in EndStates
                   /\ st.state \in EndStates
        emit_change == ~to_pending
        is_network_jitter ==
            from_jitter /\ network_jitter_flag(pending_endgame)
        change_old_state ==
            IF from_jitter THEN jitter_old_state(pending_endgame, old_state)
            ELSE IF toggled THEN "in_game"
            ELSE old_state
        change_old_appid ==
            IF from_jitter \/ toggled
            THEN OrInt(pending_endgame.old_appid, old_appid)
            ELSE old_appid
        change_old_game ==
            IF from_jitter \/ toggled
            THEN OrStr(pending_endgame.old_game, old_game_name)
            ELSE old_game_name
        session_secs == IF toggled THEN endgame_session_secs(b, now_ts) ELSE 0
        marker == IF to_pending THEN new_marker(b, st, now_ts)
                  ELSE IF from_jitter \/ toggled THEN NoMarker
                  ELSE pending_endgame
    IN  [b |-> [b EXCEPT !.pending_endgame = marker,
                         !.last_state = st.state,
                         !.last_appid = st.appid,
                         !.last_game_name = st.game,
                         !.last_change_ts = now_ts,
                         !.in_game_since_ts =
                             next_in_game_since_ts(b, st, now_ts, emit_change,
                                                   change_old_state)],
         ev |-> IF emit_change /\ b.session # ""
                THEN <<change_event(b, change_old_state, change_old_appid,
                                    change_old_game, st, session_secs,
                                    is_network_jitter)>>
                ELSE <<>>]

\* one iteration of `for b in bindings:` for a binding whose account is in
\* the fetched summaries: the updated copy of b and the events it appends
classify(b0, player, now_ts) ==
    LET st == extract_player_state(player)
        b == [b0 EXCEPT !.recent_states = push_recent_states(@, st.state)]
        old_state == b.last_state
        changed == is_changed(old_state, b.last_appid, st)
    IN  IF old_state = "" THEN adopt_baseline(b, st, now_ts)
        ELSE IF /\ b.pending_endgame.set
                /\ ~changed
                /\ old_state \in EndStates
                /\ st.state = old_state
        THEN confirm_endgame(b, st, now_ts)
        ELSE IF changed THEN record_change(b, st, now_ts)
        ELSE [b |-> b, ev |-> <<>>]

(***************************************************************************)
(* The record _handle_bind appends for a member of a group, built from the *)
(* summary fetched at bind time.  The record carries no recent_states and  *)
(* no pending_endgame key.                                                 *)
(***************************************************************************)
bind_record(id, group_id, sender_id, steamid64, player, now) ==
    LET st == extract_player_state(player)
    IN  [id |-> id,
         session |-> SessionOf(group_id),
         group_id |-> group_id,
         sender_id |-> sender_id,
         steamid64 |-> steamid64,
         last_state |-> st.state,
         last_appid |-> st.appid,
         last_game_name |-> st.game,
         in_game_since_ts |-> IF st.state = "in_game" /\ st.appid > 0
                              THEN now ELSE 0,
         last_change_ts |-> now,
         recent_states |-> <<>>,
         pending_endgame |-> NoMarker]

\* a stored binding that has no last_state yet (str(b.get("last_state") or
\* "") is empty, the integer fields read as 0)
unset_record(id, group_id, sender_id, steamid64) ==
    [id |-> id,
     session |-> SessionOf(group_id),
     group_id |-> group_id,
     sender_id |-> sender_id,
     steamid64 |-> steamid64,
     last_state |-> "",
     last_appid |-> 0,
     last_game_name |-> "",
     in_game_since_ts |-> 0,
     last_change_ts |-> 0,
     recent_states |-> <<>>,
     pending_endgame |-> NoMarker]

BindingIdSeq == <<"b1", "b2", "b3", "b4", "b5", "b6">>
SenderIdSeq == <<"m1", "m2", "m3">>

\* the records the i-th binding of a loaded document can be
LoadedRecords(i, now) ==
    LET ids == IF i = 1 THEN {<<"g1", "s1">>}
               ELSE (Groups \X LoadedAccounts) \ {<<"g1", "s1">>}
    IN  UNION {
          {unset_record(BindingIdSeq[i], k[1], SenderIdSeq[i], k[2])}
          \cup {bind_record(BindingIdSeq[i], k[1], SenderIdSeq[i], k[2], p, now)
                  : p \in Summaries}
          : k \in ids }

\* SteamStateStore.load_state: the bindings list of the stored document; no
\* two bindings of one group share a member or an account
LoadedDocuments(now) ==
    UNION { {d \in [1..n -> UNION {LoadedRecords(i, now) : i \in 1..n}] :
               /\ \A i \in 1..n : d[i] \in LoadedRecords(i, now)
               /\ \A i, j \in 1..n :
                    (i # j /\ d[i].group_id = d[j].group_id)
                        => d[i].steamid64 # d[j].steamid64}
            : n \in 0..MaxBindings }

\* lastPass[bid] before the binding's first written-back observed pass
NoPass ==
    [seen |-> FALSE, old_state |-> "", old_appid |-> 0, new_state |-> "",
     new_appid |-> 0, events |-> <<>>]

(***************************************************************************)
(* SteamWatch._parse_poll_interval_sec: int(str(raw).strip()), 60 when     *)
(* that raises, and 10 for every value below 10.  The text str(raw) is a   *)
(* sequence of characters.                                                 *)
(***************************************************************************)
\* the value the parse falls back to
DefaultInterval == 60
\* the smallest interval the loop sleeps
MinInterval == 10
\* the delay of the loop's error handler
RetryDelay == 20
\* largest length of a configured text
MaxConfigLen == 3

DigitValue ==
    [c \in {"0", "1", "2", "3", "4", "5", "6", "7", "8", "9"} |->
        CASE c = "0" -> 0 [] c = "1" -> 1 [] c = "2" -> 2 [] c = "3" -> 3
          [] c = "4" -> 4 [] c = "5" -> 5 [] c = "6" -> 6 [] c = "7" -> 7
          [] c = "8" -> 8 [] c = "9" -> 9]

IsDigit(c) == c \in DOMAIN DigitValue

\* the characters str.strip() removes
IsSpace(c) == c \in {" ", "\t", "\n"}

RECURSIVE lstrip(_)
lstrip(text) ==
    IF text # <<>> /\ IsSpace(Head(text)) THEN lstrip(Tail(text)) ELSE text

RECURSIVE rstrip(_)
rstrip(text) ==
    IF text # <<>> /\ IsSpace(text[Len(text)])
    THEN rstrip(SubSeq(text, 1, Len(text) - 1))
    ELSE text

\* str.strip()
strip(text) == rstrip(lstrip(text))

\* the decimal value of a run of digits and underscores
RECURSIVE digits_value(_, _)
digits_value(text, acc) ==
    IF text = <<>> THEN acc
    ELSE IF Head(text) = "_" THEN digits_value(Tail(text), acc)
    ELSE digits_value(Tail(text), 10 * acc + DigitValue[Head(text)])

\* int(text) of a stripped text: an optional sign, then digits, single
\* underscores allowed between digits; ok is FALSE where int raises
to_int(text) ==
    LET signed == text # <<>> /\ Head(text) \in {"+", "-"}
        body == IF signed THEN Tail(text) ELSE text
        wellformed ==
            /\ body # <<>>
            /\ \A i \in DOMAIN body : IsDigit(body[i]) \/ body[i] = "_"
            /\ IsDigit(body[1])
            /\ IsDigit(body[Len(body)])
            /\ \A i \in 1..(Len(body) - 1) :
                 ~(body[i] = "_" /\ body[i + 1] = "_")
    IN  IF ~wellformed THEN [ok |-> FALSE, val |-> 0]
        ELSE [ok |-> TRUE,
              val |-> IF signed /\ Head(text) = "-"
                      THEN 0 - digits_value(body, 0)
                      ELSE digits_value(body, 0)]

\* a parse that clamps negative values only
parse_poll_interval_sec_nonnegative(raw) ==
    LET parsed == to_int(strip(raw))
        val == IF parsed.ok THEN parsed.val ELSE DefaultInterval
    IN  IF val < 0 THEN MinInterval ELSE val

parse_poll_interval_sec(raw) ==
    LET parsed == to_int(strip(raw))
        val == IF parsed.ok THEN parsed.val ELSE DefaultInterval
    IN  IF val < MinInterval THEN MinInterval ELSE val

\* config.get("poll_interval_sec", "60") of a configuration without the key
DefaultConfig == <<"6", "0">>

(***************************************************************************)
(* The rest of the plugin's state while only the player-status pass runs:  *)
(* no subscription, no command in flight, no lifecycle call in flight.     *)
(***************************************************************************)
\* tasks that run command handlers
CmdTasks == {"t1", "t2"}
TaskNo == [t \in CmdTasks |-> IF t = "t1" THEN 1 ELSE 2]

\* the plugin instances the host has constructed
Instances == {"A", "B"}

\* latest is None: _fetch_latest_news found no item (or failed)
NoItem == [found |-> FALSE, gid |-> ""]

SubIds == {"u1", "u2", "u3", "u4", "u5", "u6"}

\* no record built yet by a command handler
NoRecord == [id |-> ""]

\* a task that runs no command handler
Idle ==
    [op |-> "idle", pc |-> "idle", group_id |-> "", sender_id |-> "",
     steamid64 |-> "", appid |-> 0, rec |-> NoRecord]

\* no handler has returned yet
NoReply == [text |-> "", rec |-> NoRecord]

\* self._poll_task is None; the tasks are numbered 1, 2, ... as they are
\* created
NoTask == 0

\* the tasks that run initialize and terminate calls
Callers == {"c1", "c2"}

\* no change event has been enriched in this pass
NoEnrichment == [answers |-> <<>>, rendered |-> FALSE]

\* a task that runs no lifecycle call
NoCall == [op |-> "idle", inst |-> "", pc |-> "idle", task |-> NoTask]

\* no file has been read, no nickname looked up, no game-ended event emitted
NoFile == [kind |-> "missing"]
NothingLoaded == <<<<>>, <<>>>>
NoAux ==
    /\ file = NoFile
    /\ loaded = NothingLoaded
    /\ nick = <<>>
    /\ endedSince = [id \in BindingIds |-> FALSE]

NoNews ==
    /\ subs = <<>>
    /\ storedSubs = <<>>
    /\ nsnap = <<>>
    /\ nidx = 0
    /\ nupdates = <<>>
    /\ newsOutbox = <<>>
    /\ fetched = <<>>
    /\ lastNews = [id \in SubIds |-> ""]

NoCommands ==
    /\ cmd = [t \in CmdTasks |-> Idle]
    /\ nextId = 0
    /\ reply = NoReply

IdleLifecycle ==
    /\ poll_task = [i \in Instances |-> NoTask]
    /\ stop = [i \in Instances |-> FALSE]
    /\ global_poll_task = NoTask
    /\ tasks = <<>>
    /\ calls = [c \in Callers |-> NoCall]
    /\ config = DefaultConfig
    /\ poll_interval_sec = parse_poll_interval_sec(config)
    /\ delay = 0
    /\ enrich = NoEnrichment

NoLifecycle == IdleLifecycle /\ NoAux

Init ==
    /\ clock = 1
    /\ bindings \in LoadedDocuments(1)
    /\ stored = bindings
    /\ pc = "sleep"
    /\ snapshot = <<>>
    /\ players = [a \in Accounts |-> Absent]
    /\ updates = <<>>
    /\ changes = <<>>
    /\ outbox = {}
    /\ lastPass = [id \in BindingIds |-> NoPass]
    /\ lock = "free"
    /\ NoNews
    /\ NoCommands
    /\ NoLifecycle

(***************************************************************************)
(* _poll_player_status_once, in the steps between which other tasks run.   *)
(***************************************************************************)
\* the index of the binding with this id in a list, 0 if there is none
IndexOf(list, id) ==
    IF \E i \in DOMAIN list : list[i].id = id
    THEN CHOOSE i \in DOMAIN list : list[i].id = id
    ELSE 0

\* a pass that classifies no binding when some account is missing
OutcomeAllOrNothing(snap, pl, now_ts, i) ==
    IF \E j \in DOMAIN snap : pl[snap[j].steamid64] = Absent
    THEN [b |-> snap[i], ev |-> <<>>]
    ELSE classify(snap[i], pl[snap[i].steamid64], now_ts)

\* the classification of the i-th binding of the snapshot
Outcome(snap, pl, now_ts, i) ==
    IF pl[snap[i].steamid64] = Absent
    THEN [b |-> snap[i], ev |-> <<>>]
    ELSE classify(snap[i], pl[snap[i].steamid64], now_ts)

\* changes_by_session[session] after the first n loop iterations
RECURSIVE SessionChanges(_, _, _, _, _)
SessionChanges(snap, pl, now_ts, session, n) ==
    IF n = 0 THEN <<>>
    ELSE SessionChanges(snap, pl, now_ts, session, n - 1)
         \o (IF snap[n].session = session
             THEN Outcome(snap, pl, now_ts, n).ev ELSE <<>>)

\* `updates` after the loop: the updated copy of every binding, by id
poll_updates(snap, pl, now_ts) ==
    [id \in {snap[i].id : i \in DOMAIN snap} |->
        Outcome(snap, pl, now_ts, IndexOf(snap, id)).b]

\* `changes_by_session` after the loop
poll_changes(snap, pl, now_ts) ==
    LET sessions == {snap[i].session : i \in DOMAIN snap}
        hit == {s \in sessions :
                   SessionChanges(snap, pl, now_ts, s, Len(snap)) # <<>>}
    IN  [s \in hit |-> SessionChanges(snap, pl, now_ts, s, Len(snap))]

\* the loop wakes up and the pass copies the bindings out under the lock;
\* with no binding the pass returns at once
PollSnapshot ==
    /\ pc = "sleep"
    /\ \E d \in 1..MaxTick :
         /\ clock + d <= MaxClock
         /\ clock' = clock + d
    /\ snapshot' = bindings
    /\ pc' = IF bindings = <<>> THEN "empty" ELSE "fetch"
    /\ UNCHANGED <<bindings, stored, players, updates, changes, outbox,
                   lastPass>>
    /\ UNCHANGED otherVars

\* the summaries are fetched and every binding of the snapshot is classified;
\* `seen` is the set of summaries the fetch can return
PollClassifyFrom(seen) ==
    /\ pc = "fetch"
    /\ \E pl \in [Accounts -> seen \cup {Absent}] :
         /\ \A a \in Accounts :
              (\A i \in DOMAIN snapshot : snapshot[i].steamid64 # a)
                  => pl[a] = Absent
         /\ players' = pl
         /\ IF \A a \in Accounts : pl[a] = Absent
            THEN /\ pc' = "empty"
                 /\ UNCHANGED <<updates, changes>>
            ELSE /\ pc' = "push"
                 /\ updates' = poll_updates(snapshot, pl, clock)
                 /\ changes' = poll_changes(snapshot, pl, clock)
    /\ UNCHANGED <<clock, bindings, stored, snapshot, outbox, lastPass>>
    /\ UNCHANGED otherVars

PollClassify == PollClassifyFrom(Summaries)

\* the message _push_group_state_changes sends for a session
status_message(session) == [session |-> session, entries |-> changes[session]]

\* every session's push returns; a push whose card could not be rendered
\* returns without sending
PollPush ==
    /\ pc = "push"
    /\ \E sent \in SUBSET (DOMAIN changes) :
         outbox' = {status_message(s) : s \in sent}
    /\ pc' = "write"
    /\ UNCHANGED <<clock, bindings, stored, snapshot, players, updates,
                   changes, lastPass>>
    /\ UNCHANGED otherVars

\* rendering or send_message raises in some session's push: the pass ends
\* without its write-back and the loop goes to its retry sleep
PollPushFail ==
    /\ pc = "push"
    /\ DOMAIN changes # {}
    /\ \E sent \in SUBSET (DOMAIN changes) :
         /\ sent # DOMAIN changes
         /\ outbox' = {status_message(s) : s \in sent}
    /\ pc' = "failed"
    /\ UNCHANGED <<clock, bindings, stored, snapshot, players, updates,
                   changes, lastPass>>
    /\ UNCHANGED otherVars

\* a write-back that replaces the first binding only
write_back_first_only(list, upd) ==
    [i \in DOMAIN list |->
        IF i = 1 /\ list[i].id \in DOMAIN upd THEN upd[list[i].id] ELSE list[i]]

\* a write-back that stores the updated copies of the snapshot as the list
write_back_of_snapshot(list, upd) ==
    [i \in DOMAIN snapshot |->
        IF snapshot[i].id \in DOMAIN upd THEN upd[snapshot[i].id]
        ELSE snapshot[i]]

\* the write-back under the lock: every binding whose id is in `updates` is
\* replaced, and the document is saved
write_back(list, upd) ==
    [i \in DOMAIN list |->
        IF list[i].id \in DOMAIN upd THEN upd[list[i].id] ELSE list[i]]

\* what the pass did for the i-th binding of its snapshot
pass_record(i) ==
    [seen |-> TRUE,
     old_state |-> snapshot[i].last_state,
     old_appid |-> snapshot[i].last_appid,
     new_state |-> updates[snapshot[i].id].last_state,
     new_appid |-> updates[snapshot[i].id].last_appid,
     events |-> Outcome(snapshot, players, clock, i).ev]

PollWriteBack ==
    /\ pc = "write"
    /\ bindings' = write_back(bindings, updates)
    /\ stored' = bindings'
    /\ pc' = "written"
    /\ UNCHANGED <<clock, snapshot, players, updates, changes, outbox,
                   lastPass>>
    /\ UNCHANGED otherVars

\* the pass returns (or its exception reaches the loop's handler): its locals
\* are gone, the loop task sleeps, and a pass that wrote back enters the
\* history
PollEnds(next, history) ==
    /\ pc \in {"written", "failed", "empty"}
    /\ pc' = next
    /\ snapshot' = <<>>
    /\ players' = [a \in Accounts |-> Absent]
    /\ updates' = <<>>
    /\ changes' = <<>>
    /\ outbox' = {}
    /\ lastPass' = history
    /\ UNCHANGED <<clock, bindings, stored>>
    /\ UNCHANGED otherVars

PollReturn ==
    PollEnds("sleep",
             [id \in BindingIds |->
                IF /\ pc = "written"
                    /\ IndexOf(snapshot, id) # 0
                    /\ players[snapshot[IndexOf(snapshot, id)].steamid64]
                         # Absent
                 THEN pass_record(IndexOf(snapshot, id))
                 ELSE lastPass[id]])

Next ==
    \/ PollSnapshot
    \/ PollClassify
    \/ PollPush
    \/ PollPushFail
    \/ PollWriteBack
    \/ PollReturn

Spec == Init /\ [][Next]_vars

(***************************************************************************)
(* Vocabulary of the properties.                                           *)
(***************************************************************************)
\* the pass has classified its snapshot: updates and changes are computed
Classified == pc \in {"push", "write", "written", "failed"}

\* the account of the i-th binding of the snapshot is in the summaries
Observed(i) == players[snapshot[i].steamid64] # Absent

\* the state, appid and game name observed for the i-th binding
Obs(i) == extract_player_state(players[snapshot[i].steamid64])

\* the updated copy of the i-th binding of the snapshot
Upd(i) == updates[snapshot[i].id]

\* the events the pass emitted for the i-th binding of the snapshot
EventsOf(i) ==
    IF snapshot[i].session \in DOMAIN changes
    THEN SelectSeq(changes[snapshot[i].session],
                   LAMBDA e : e.bid = snapshot[i].id)
    ELSE <<>>

\* the binding with this id in self._bindings
Current(id) == bindings[IndexOf(bindings, id)]

\* a confirmed end of a game
IsGameEnded(e) ==
    e.old_state = "in_game" /\ e.new_state \in EndStates /\ ~e.network_jitter

\* a change as the pass computes it for a binding that has a last_state
ChangeSeen(i) ==
    /\ snapshot[i].last_state # ""
    /\ \/ Obs(i).state # snapshot[i].last_state
       \/ (Obs(i).state = "in_game" /\ Obs(i).appid # snapshot[i].last_appid)

\* the binding's previous written-back pass took it from in_game to
\* online/offline
LeftGameLastPass(i) ==
    /\ lastPass[snapshot[i].id].seen
    /\ lastPass[snapshot[i].id].old_state = "in_game"
    /\ lastPass[snapshot[i].id].new_state \in EndStates

(***************************************************************************)
(* C1: a binding whose last_state is unset and whose account is in the     *)
(* fetched summaries adopts the observed state, appid and game name, emits *)
(* no event, and has a last_state after the pass.                          *)
(***************************************************************************)
C1_BaselineAdopted ==
    Classified =>
      \A i \in DOMAIN snapshot :
        (Observed(i) /\ snapshot[i].last_state = "") =>
          /\ Upd(i).last_state = Obs(i).state
          /\ Upd(i).last_appid = Obs(i).appid
          /\ Upd(i).last_game_name = Obs(i).game
          /\ Upd(i).last_state # ""
          /\ EventsOf(i) = <<>>
          /\ pc = "written" =>
               /\ Current(snapshot[i].id).last_state = Obs(i).state
               /\ Current(snapshot[i].id).last_appid = Obs(i).appid
               /\ Current(snapshot[i].id).last_game_name = Obs(i).game

C1_Witness ==
    /\ pc = "written"
    /\ \E i \in DOMAIN snapshot :
         /\ Observed(i)
         /\ snapshot[i].last_state = ""
         /\ Obs(i).state = "in_game"
         /\ Obs(i).appid > 0
         /\ Current(snapshot[i].id).last_state = "in_game"

(***************************************************************************)
(* C2: when last_state is in_game and the pass observes online or offline, *)
(* the pass emits no event for the binding and records a marker holding    *)
(* the old appid, the old game name, the in-game start timestamp           *)
(* (in_game_since_ts, or last_change_ts when that is 0) and the observed   *)
(* state.                                                                  *)
(***************************************************************************)
C2_MarkerRecorded ==
    Classified =>
      \A i \in DOMAIN snapshot :
        (/\ Observed(i)
         /\ snapshot[i].last_state = "in_game"
         /\ Obs(i).state \in EndStates) =>
          /\ EventsOf(i) = <<>>
          /\ Upd(i).pending_endgame =
               [set |-> TRUE,
                old_appid |-> snapshot[i].last_appid,
                old_game |-> snapshot[i].last_game_name,
                start_ts |-> IF snapshot[i].in_game_since_ts # 0
                             THEN snapshot[i].in_game_since_ts
                             ELSE snapshot[i].last_change_ts,
                pending_state |-> Obs(i).state]

C2_Witness ==
    /\ pc = "written"
    /\ \E i \in DOMAIN snapshot :
         /\ Observed(i)
         /\ snapshot[i].last_state = "in_game"
         /\ snapshot[i].in_game_since_ts # 0
         /\ snapshot[i].in_game_since_ts < snapshot[i].last_change_ts
         /\ Obs(i).state = "offline"
         /\ Current(snapshot[i].id).pending_endgame.set
         /\ EventsOf(i) = <<>>

(***************************************************************************)
(* C3: a binding taken from in_game(a) to X in {online, offline} by its    *)
(* previous written-back pass and observed as X again emits exactly one    *)
(* event over the two passes: none in the first, and in the second a       *)
(* game-ended event (old_state in_game, old_appid a, new_state X, not      *)
(* jitter) whose session duration is the pass time minus the marker's      *)
(* start timestamp; the pass clears the marker and in_game_since_ts.       *)
(***************************************************************************)
C3_EndConfirmedOnRepeat ==
    Classified =>
      \A i \in DOMAIN snapshot :
        (/\ Observed(i)
         /\ LeftGameLastPass(i)
         /\ Obs(i).state = lastPass[snapshot[i].id].new_state) =>
          /\ lastPass[snapshot[i].id].events = <<>>
          /\ Len(EventsOf(i)) = 1
          /\ IsGameEnded(EventsOf(i)[1])
          /\ EventsOf(i)[1].old_appid = lastPass[snapshot[i].id].old_appid
          /\ EventsOf(i)[1].new_state = Obs(i).state
          /\ EventsOf(i)[1].session_secs =
               clock - snapshot[i].pending_endgame.start_ts
          /\ Upd(i).pending_endgame = NoMarker
          /\ Upd(i).in_game_since_ts = 0
          /\ pc = "written" =>
               /\ Current(snapshot[i].id).pending_endgame = NoMarker
               /\ Current(snapshot[i].id).in_game_since_ts = 0

C3_Witness ==
    /\ pc = "written"
    /\ \E i \in DOMAIN snapshot :
         /\ Observed(i)
         /\ LeftGameLastPass(i)
         /\ lastPass[snapshot[i].id].old_appid > 0
         /\ Obs(i).state = lastPass[snapshot[i].id].new_state
         /\ Len(EventsOf(i)) = 1
         /\ EventsOf(i)[1].session_secs > clock - snapshot[i].last_change_ts

(***************************************************************************)
(* C4: a binding taken from in_game(a) to online/offline by its previous   *)
(* written-back pass and observed in_game again emits exactly one event    *)
(* over the two passes; the event is tagged network_jitter, no game-ended  *)
(* event is emitted in either pass, and the marker is cleared.             *)
(***************************************************************************)
C4_JitterSingleEvent ==
    Classified =>
      \A i \in DOMAIN snapshot :
        (/\ Observed(i)
         /\ LeftGameLastPass(i)
         /\ Obs(i).state = "in_game") =>
          /\ lastPass[snapshot[i].id].events = <<>>
          /\ Len(EventsOf(i)) = 1
          /\ EventsOf(i)[1].network_jitter
          /\ EventsOf(i)[1].new_state = "in_game"
          /\ ~IsGameEnded(EventsOf(i)[1])
          /\ Upd(i).pending_endgame = NoMarker
          /\ pc = "written" =>
               Current(snapshot[i].id).pending_endgame = NoMarker

C4_Witness ==
    /\ pc = "written"
    /\ \E i \in DOMAIN snapshot :
         /\ Observed(i)
         /\ LeftGameLastPass(i)
         /\ Obs(i).state = "in_game"
         /\ Obs(i).appid = lastPass[snapshot[i].id].old_appid
         /\ Obs(i).appid > 0
         /\ Len(EventsOf(i)) = 1
         /\ EventsOf(i)[1].network_jitter

(***************************************************************************)
(* C5: the event emitted when a marker is followed by an in_game           *)
(* observation has old_state in_game and the marker's old appid and old    *)
(* game name.                                                              *)
(***************************************************************************)
C5_JitterEventFromInGame ==
    Classified =>
      \A i \in DOMAIN snapshot :
        (/\ Observed(i)
         /\ snapshot[i].pending_endgame.set
         /\ Obs(i).state = "in_game") =>
          \A k \in DOMAIN EventsOf(i) :
            /\ EventsOf(i)[k].old_state = "in_game"
            /\ EventsOf(i)[k].old_appid = snapshot[i].pending_endgame.old_appid
            /\ EventsOf(i)[k].old_game = snapshot[i].pending_endgame.old_game

(***************************************************************************)
(* C6: when a marker is set and the pass observes the other one of         *)
(* online/offline, the pass emits exactly one game-ended event with        *)
(* old_state in_game, the marker's old appid and game, not jitter, and a   *)
(* session duration of the pass time minus the marker's start timestamp;   *)
(* it clears the marker and sets in_game_since_ts to 0.                    *)
(***************************************************************************)
C6_ToggleConfirmsEnd ==
    Classified =>
      \A i \in DOMAIN snapshot :
        (/\ Observed(i)
         /\ snapshot[i].pending_endgame.set
         /\ Obs(i).state \in EndStates
         /\ Obs(i).state # snapshot[i].pending_endgame.pending_state) =>
          /\ Len(EventsOf(i)) = 1
          /\ IsGameEnded(EventsOf(i)[1])
          /\ EventsOf(i)[1].new_state = Obs(i).state
          /\ EventsOf(i)[1].old_appid = snapshot[i].pending_endgame.old_appid
          /\ EventsOf(i)[1].old_game = snapshot[i].pending_endgame.old_game
          /\ EventsOf(i)[1].session_secs =
               clock - snapshot[i].pending_endgame.start_ts
          /\ Upd(i).pending_endgame = NoMarker
          /\ Upd(i).in_game_since_ts = 0

C6_Witness ==
    /\ pc = "written"
    /\ \E i \in DOMAIN snapshot :
         /\ Observed(i)
         /\ snapshot[i].pending_endgame.set
         /\ snapshot[i].pending_endgame.pending_state = "offline"
         /\ snapshot[i].in_game_since_ts > 0
         /\ Obs(i).state = "online"
         /\ Len(EventsOf(i)) = 1
         /\ EventsOf(i)[1].session_secs > clock - snapshot[i].last_change_ts
         /\ Current(snapshot[i].id).in_game_since_ts = 0

(***************************************************************************)
(* C7: with no marker set, a change that does not leave in_game            *)
(* (online <-> offline, online/offline -> in_game, or in_game with another *)
(* appid) emits exactly one event in the same pass, with old_state and     *)
(* old_appid as persisted, new_state and new_appid as observed, not        *)
(* jitter.                                                                 *)
(***************************************************************************)
C7_DirectChangeEvent ==
    Classified =>
      \A i \in DOMAIN snapshot :
        (/\ Observed(i)
         /\ ~snapshot[i].pending_endgame.set
         /\ ChangeSeen(i)
         /\ ~(snapshot[i].last_state = "in_game" /\ Obs(i).state \in EndStates))
        =>
          /\ Len(EventsOf(i)) = 1
          /\ EventsOf(i)[1].old_state = snapshot[i].last_state
          /\ EventsOf(i)[1].old_appid = snapshot[i].last_appid
          /\ EventsOf(i)[1].new_state = Obs(i).state
          /\ EventsOf(i)[1].new_appid = Obs(i).appid
          /\ ~EventsOf(i)[1].network_jitter

C7_Witness ==
    /\ Classified
    /\ \E i \in DOMAIN snapshot :
         /\ Observed(i)
         /\ ~snapshot[i].pending_endgame.set
         /\ snapshot[i].last_state = "in_game"
         /\ Obs(i).state = "in_game"
         /\ snapshot[i].last_appid > 0
         /\ Obs(i).appid > 0
         /\ Obs(i).appid # snapshot[i].last_appid
         /\ Len(EventsOf(i)) = 1

(***************************************************************************)
(* C8: every binding yields at most one event per pass, and none when the  *)
(* observed state equals last_state (with the same appid when in_game) and *)
(* no marker is set; last_state, last_appid, last_change_ts,               *)
(* in_game_since_ts and the marker are then unchanged.                     *)
(***************************************************************************)
C8_AtMostOneEvent ==
    Classified =>
      \A i \in DOMAIN snapshot :
        /\ Len(EventsOf(i)) <= 1
        /\ (/\ Observed(i)
            /\ ~snapshot[i].pending_endgame.set
            /\ snapshot[i].last_state # ""
            /\ ~ChangeSeen(i)) =>
             /\ EventsOf(i) = <<>>
             /\ Upd(i).last_state = snapshot[i].last_state
             /\ Upd(i).last_appid = snapshot[i].last_appid
             /\ Upd(i).last_change_ts = snapshot[i].last_change_ts
             /\ Upd(i).in_game_since_ts = snapshot[i].in_game_since_ts
             /\ Upd(i).pending_endgame = snapshot[i].pending_endgame

C8_Witness ==
    /\ pc = "written"
    /\ \E i, j \in DOMAIN snapshot :
         /\ Observed(i)
         /\ ~snapshot[i].pending_endgame.set
         /\ snapshot[i].last_state = "in_game"
         /\ ~ChangeSeen(i)
         /\ snapshot[i].last_change_ts < clock
         /\ EventsOf(i) = <<>>
         /\ Len(EventsOf(j)) = 1

(***************************************************************************)
(* C9: after a pass that observed the binding's account and wrote back,    *)
(* the binding's last_state, last_appid and last_game_name are the         *)
(* observed state, appid and game name.                                    *)
(***************************************************************************)
C9_LastEqualsObserved ==
    pc = "written" =>
      \A i \in DOMAIN snapshot :
        Observed(i) =>
          /\ Current(snapshot[i].id).last_state = Obs(i).state
          /\ Current(snapshot[i].id).last_appid = Obs(i).appid
          /\ Current(snapshot[i].id).last_game_name = Obs(i).game

(***************************************************************************)
(* C10: in_game_since_ts becomes the pass time in every pass that records  *)
(* a change into in_game with a positive appid, becomes 0 in every pass    *)
(* that emits a game-ended event, and is left unchanged by every other     *)
(* pass, the one that only sets the marker included.                       *)
(***************************************************************************)
C10_InGameSince ==
    Classified =>
      \A i \in DOMAIN snapshot :
        Observed(i) =>
          LET into == ChangeSeen(i) /\ Obs(i).state = "in_game"
                        /\ Obs(i).appid > 0
              ended == \E k \in DOMAIN EventsOf(i) : IsGameEnded(EventsOf(i)[k])
          IN  /\ into => Upd(i).in_game_since_ts = clock
              /\ ended => Upd(i).in_game_since_ts = 0
              /\ (~into /\ ~ended) =>
                   Upd(i).in_game_since_ts = snapshot[i].in_game_since_ts
              /\ ~(into /\ ended)

C10_Witness ==
    /\ pc = "written"
    /\ \E i \in DOMAIN snapshot :
         /\ Observed(i)
         /\ snapshot[i].pending_endgame.set
         /\ snapshot[i].in_game_since_ts > 0
         /\ snapshot[i].in_game_since_ts < clock
         /\ Obs(i).state = "in_game"
         /\ Obs(i).appid = snapshot[i].pending_endgame.old_appid
         /\ Obs(i).appid > 0
         /\ Current(snapshot[i].id).in_game_since_ts = clock


(***************************************************************************)
(* Game news: the subscriptions of the loaded document,                    *)
(* _handle_subscribe_game and _poll_game_news_once, in the steps between   *)
(* which other tasks run.                                                  *)
(***************************************************************************)
\* largest number of subscriptions in the loaded document
MaxSubs == 1
\* largest number of uuid4 ids the command handlers draw
MaxIds == 2

\* app ids of the games the groups subscribe to
NewsApps == {1}

\* "gid" values of a news item ("" when the item carries none)
Gids == {"", "n1", "n2"}

\* what _fetch_latest_news returns when it finds an item
NewsItems == {[found |-> TRUE, gid |-> g] : g \in Gids}

SubIdSeq == <<"u1", "u2", "u3", "u4", "u5", "u6">>

\* the record _handle_subscribe_game builds
subscription_record(id, group_id, appid, latest_gid) ==
    [id |-> id,
     group_id |-> group_id,
     session |-> SessionOf(group_id),
     appid |-> appid,
     last_news_gid |-> latest_gid]

\* the records the i-th subscription of a loaded document can be
LoadedSubRecords(i) ==
    LET keys == IF i = 1 THEN {<<"g1", 1>>}
                ELSE (Groups \X NewsApps) \ {<<"g1", 1>>}
    IN  {subscription_record(SubIdSeq[i], k[1], k[2], g) :
            k \in keys, g \in Gids}

\* SteamStateStore.load_state: the game_subscriptions list of the stored
\* document; no two subscriptions share group and appid
LoadedSubscriptions ==
    UNION { {d \in [1..n -> UNION {LoadedSubRecords(i) : i \in 1..n}] :
               /\ \A i \in 1..n : d[i] \in LoadedSubRecords(i)
               /\ \A i, j \in 1..n :
                    (i # j /\ d[i].group_id = d[j].group_id)
                        => d[i].appid # d[j].appid}
            : n \in 0..MaxSubs }

\* the player-status pass has no locals and no history
NoPlayerPass ==
    /\ snapshot = <<>>
    /\ players = [a \in Accounts |-> Absent]
    /\ updates = <<>>
    /\ changes = <<>>
    /\ outbox = {}
    /\ lastPass = [id \in BindingIds |-> NoPass]

passLocals == <<snapshot, players, updates, changes, outbox, lastPass>>
newsLocals == <<nsnap, nidx, nupdates, newsOutbox, fetched, lastNews>>

InitNews ==
    /\ clock = 1
    /\ bindings = <<>>
    /\ stored = <<>>
    /\ pc = "sleep"
    /\ NoPlayerPass
    /\ lock = "free"
    /\ subs \in LoadedSubscriptions
    /\ storedSubs = subs
    /\ nsnap = <<>>
    /\ nidx = 0
    /\ nupdates = <<>>
    /\ newsOutbox = <<>>
    /\ fetched = <<>>
    /\ lastNews = [id \in SubIds |-> ""]
    /\ NoCommands
    /\ NoLifecycle

\* a check that only finds the handler's own record
is_subscribed_same_id(list, group_id, appid) ==
    \E i \in DOMAIN list :
        list[i].group_id = group_id /\ list[i].appid = appid
            /\ list[i].id = ""

\* a payload that leaves the subscriptions out
write_state_without_subs(b, g) ==
    [bindings |-> b, game_subscriptions |-> <<>>]

\* SteamStateStore._write_state_sync: the payload written to state.json
write_state(b, g) ==
    [bindings |-> b, game_subscriptions |-> g]

\* SteamStateStore.load_state: the two lists of a document
load_state(doc) == <<doc.bindings, doc.game_subscriptions>>

\* _save_state_unlocked returns: the document holds what the two lists held
SaveState ==
    /\ stored' = write_state(bindings, subs).bindings
    /\ storedSubs' = write_state(bindings, subs).game_subscriptions

\* a new handler runs in the first task that runs none
FirstIdle(t) ==
    /\ cmd[t].op = "idle"
    /\ \A u \in CmdTasks : cmd[u].op = "idle" => TaskNo[t] <= TaskNo[u]

\* the handlers already admitted draw fewer than MaxIds ids
IdsLeft ==
    nextId + Cardinality({u \in CmdTasks :
                             cmd[u].pc \in {"check", "fetch", "fetch_gid"}})
        < MaxIds

\* the handler of task t returns this text
Returns(t, text, rec) ==
    /\ cmd' = [cmd EXCEPT ![t] = Idle]
    /\ reply' = [text |-> text, rec |-> rec]

\* the loop of _handle_subscribe_game under the lock: the group already has
\* a subscription of this appid
is_subscribed(list, group_id, appid) ==
    \E i \in DOMAIN list :
        list[i].group_id = group_id /\ list[i].appid = appid

\* the command arrives in a group and _resolve_app finds the game (a handler
\* that returns one of its usage texts before that touches nothing)
SubscribeReceive(t) ==
    /\ FirstIdle(t)
    /\ IdsLeft
    /\ \E g \in Groups, a \in NewsApps :
         cmd' = [cmd EXCEPT ![t] =
                    [Idle EXCEPT !.op = "subscribe", !.pc = "fetch_gid",
                                     !.group_id = g, !.appid = a]]
    /\ UNCHANGED <<pollVars, lock, newsVars, nextId, reply, lifeVars>>

\* _fetch_latest_news_gid returns ("" when there is no news or the fetch
\* failed) and the record is built with a fresh id
SubscribeFetchGid(t) ==
    /\ cmd[t].op = "subscribe"
    /\ cmd[t].pc = "fetch_gid"
    /\ \E g \in Gids :
         cmd' = [cmd EXCEPT ![t].pc = "lock",
                            ![t].rec = subscription_record(
                                           SubIdSeq[MaxSubs + nextId + 1],
                                           cmd[t].group_id, cmd[t].appid, g)]
    /\ nextId' = nextId + 1
    /\ UNCHANGED reply
    /\ UNCHANGED <<pollVars, lock, newsVars, lifeVars>>

\* the handler takes the lock: a subscription of the group for this appid
\* ends the handler, otherwise the record is appended and the save starts
SubscribeLocked(t) ==
    /\ cmd[t].op = "subscribe"
    /\ cmd[t].pc = "lock"
    /\ lock = "free"
    /\ IF is_subscribed(subs, cmd[t].group_id, cmd[t].appid)
       THEN /\ Returns(t, "already subscribed", cmd[t].rec)
            /\ UNCHANGED <<subs, lock>>
       ELSE /\ subs' = Append(subs, cmd[t].rec)
            /\ lock' = t
            /\ cmd' = [cmd EXCEPT ![t].pc = "save"]
            /\ UNCHANGED reply
    /\ UNCHANGED <<pollVars, storedSubs, newsLocals, nextId, lifeVars>>

\* _save_state_unlocked returns: the document holds both lists; the lock is
\* released and the handler returns
SubscribeSaved(t) ==
    /\ cmd[t].op = "subscribe"
    /\ cmd[t].pc = "save"
    /\ SaveState
    /\ lock' = "free"
    /\ Returns(t, "subscribed", NoRecord)
    /\ UNCHANGED <<clock, bindings, pc, passLocals, subs, newsLocals, nextId,
                   lifeVars>>

\* the loop wakes up with no binding: the player-status pass takes its
\* snapshot and returns at once, the news pass is next
LoopToNews ==
    /\ pc = "sleep"
    /\ \E d \in 1..MaxTick :
         /\ clock + d <= MaxClock
         /\ clock' = clock + d
    /\ bindings = <<>>
    /\ lock = "free"
    /\ pc' = "news"
    /\ UNCHANGED <<bindings, stored, passLocals, otherVars>>

\* the news pass copies the subscriptions out under the lock; with no
\* subscription it returns at once
NewsSnapshot ==
    /\ pc = "news"
    /\ lock = "free"
    /\ nsnap' = subs
    /\ nidx' = IF subs = <<>> THEN 0 ELSE 1
    /\ pc' = IF subs = <<>> THEN "sleep" ELSE "nloop"
    /\ UNCHANGED <<clock, bindings, stored, passLocals, lock, subs,
                   storedSubs, nupdates, newsOutbox, fetched, lastNews,
                   cmdVars, lifeVars>>

\* a dispatch whenever both gids are non-empty
news_dispatch_any_gid(s, latest) ==
    /\ latest.found
    /\ s.last_news_gid # ""
    /\ latest.gid # ""

\* a dispatch of the first gid fetched for a subscription without one
news_dispatch_first_gid(s, latest) ==
    /\ latest.found
    /\ latest.gid # ""
    /\ s.last_news_gid # latest.gid

\* old_gid and new_gid and old_gid != new_gid
news_dispatch(s, latest) ==
    /\ latest.found
    /\ s.last_news_gid # ""
    /\ latest.gid # ""
    /\ s.last_news_gid # latest.gid

\* an entry that takes the fetched gid as it is
news_update_fetched_gid(s, latest) ==
    IF ~latest.found THEN s
    ELSE [s EXCEPT !.last_news_gid = latest.gid]

\* the subscription's entry of `updates`: s["last_news_gid"] = new_gid or
\* old_gid when an item was fetched, s as it was otherwise
news_update(s, latest) ==
    IF ~latest.found THEN s
    ELSE [s EXCEPT !.last_news_gid =
             IF latest.gid # "" THEN latest.gid ELSE s.last_news_gid]

\* the message the pass sends for a subscription
news_message(s, latest) ==
    [session |-> s.session, sid |-> s.id, gid |-> latest.gid]

\* one iteration of the loop over `subs`: the fetch, the dispatch when the
\* gid is new, the entry of `updates`
NewsStep ==
    /\ pc = "nloop"
    /\ nidx <= Len(nsnap)
    /\ LET s == nsnap[nidx] IN
       \E latest \in NewsItems \cup {NoItem} :
         /\ (s.appid <= 0) => latest = NoItem
         /\ fetched' = fetched @@ (s.id :> latest)
         /\ newsOutbox' = IF news_dispatch(s, latest)
                          THEN Append(newsOutbox, news_message(s, latest))
                          ELSE newsOutbox
         /\ nupdates' = nupdates @@ (s.id :> news_update(s, latest))
    /\ nidx' = nidx + 1
    /\ UNCHANGED <<pollVars, lock, subs, storedSubs, nsnap, lastNews,
                   cmdVars, lifeVars>>

\* rendering the card or send_message raises: the pass ends without its
\* write-back and the loop goes to its retry sleep
NewsStepFail ==
    /\ pc = "nloop"
    /\ nidx <= Len(nsnap)
    /\ \E latest \in NewsItems :
         /\ news_dispatch(nsnap[nidx], latest)
         /\ fetched' = fetched @@ (nsnap[nidx].id :> latest)
    /\ pc' = "nfailed"
    /\ UNCHANGED <<clock, bindings, stored, passLocals, lock, subs,
                   storedSubs, nsnap, nidx, nupdates, newsOutbox, lastNews,
                   cmdVars, lifeVars>>

\* the write-back under the lock: every subscription whose id is in
\* `updates` is replaced, and the save starts
NewsWriteBack ==
    /\ pc = "nloop"
    /\ nidx > Len(nsnap)
    /\ lock = "free"
    /\ subs' = write_back(subs, nupdates)
    /\ lock' = "poll"
    /\ pc' = "nsave"
    /\ UNCHANGED <<clock, bindings, stored, passLocals, storedSubs,
                   newsLocals, cmdVars, lifeVars>>

\* _save_state_unlocked returns and the lock is released
NewsSaved ==
    /\ pc = "nsave"
    /\ SaveState
    /\ lock' = "free"
    /\ pc' = "nwritten"
    /\ UNCHANGED <<clock, bindings, passLocals, subs, newsLocals, cmdVars,
                   lifeVars>>

\* number of messages of the pass for a subscription
RECURSIVE SentFor(_, _)
SentFor(box, sid) ==
    IF box = <<>> THEN 0
    ELSE SentFor(Tail(box), sid) + (IF Head(box).sid = sid THEN 1 ELSE 0)

\* the gid the pass dispatched for the i-th subscription of its snapshot
news_record(i) ==
    IF SentFor(newsOutbox, nsnap[i].id) > 0
    THEN fetched[nsnap[i].id].gid ELSE ""

\* the news pass returns (or its exception reaches the loop's handler): its
\* locals are gone, the loop task sleeps, and a pass that wrote back enters
\* the history
NewsReturn ==
    /\ pc \in {"nwritten", "nfailed"}
    /\ pc' = "sleep"
    /\ nsnap' = <<>>
    /\ nidx' = 0
    /\ nupdates' = <<>>
    /\ newsOutbox' = <<>>
    /\ fetched' = <<>>
    /\ lastNews' =
         [id \in SubIds |->
            IF pc = "nwritten" /\ IndexOf(nsnap, id) # 0
            THEN news_record(IndexOf(nsnap, id))
            ELSE lastNews[id]]
    /\ UNCHANGED <<clock, bindings, stored, passLocals, lock, subs,
                   storedSubs, cmdVars, lifeVars>>

NextNews ==
    \/ LoopToNews
    \/ NewsSnapshot
    \/ NewsStep
    \/ NewsStepFail
    \/ NewsWriteBack
    \/ NewsSaved
    \/ NewsReturn
    \/ \E t \in CmdTasks : SubscribeReceive(t)
    \/ \E t \in CmdTasks : SubscribeFetchGid(t)
    \/ \E t \in CmdTasks : SubscribeLocked(t)
    \/ \E t \in CmdTasks : SubscribeSaved(t)

SpecNews == InitNews /\ [][NextNews]_vars

(***************************************************************************)
(* The bind and unbind commands, and the player-status pass with its lock  *)
(* sections, in the steps between which other tasks run.                   *)
(***************************************************************************)
\* groups the commands of the model arrive in
CmdGroups == {"g1"}

\* sender ids of the group members
Members == {"m1", "m2"}

\* the summaries the pass fetches while commands run
CmdSummaries ==
    {[personastate |-> 1, gameid |-> 1, gameextrainfo |-> "G"]}

\* the summaries _handle_bind fetches
BindSummaries ==
    {[personastate |-> 0, gameid |-> 0, gameextrainfo |-> ""]}

\* the plugin starts from an empty document
InitCmd ==
    /\ clock = 1
    /\ bindings = <<>>
    /\ stored = <<>>
    /\ pc = "sleep"
    /\ NoPlayerPass
    /\ lock = "free"
    /\ NoNews
    /\ NoCommands
    /\ NoLifecycle

\* the loop over self._bindings in _handle_bind: 0 when no binding of the
\* group holds the account, else the index of the first one that does
bind_conflict(list, group_id, steamid64) ==
    IF \E i \in DOMAIN list :
          list[i].group_id = group_id /\ list[i].steamid64 = steamid64
    THEN CHOOSE i \in DOMAIN list :
            /\ list[i].group_id = group_id /\ list[i].steamid64 = steamid64
            /\ \A j \in 1..(i - 1) :
                 ~(list[j].group_id = group_id
                    /\ list[j].steamid64 = steamid64)
    ELSE 0

\* the text the handler returns when the loop finds the i-th binding
conflict_reply(list, i, sender_id) ==
    IF list[i].sender_id = sender_id
    THEN "already bound" ELSE "bound by another member"

\* a second section that appends without looking
bind_recheck_skipped(list, group_id, steamid64) == 0

\* the second loop, run in the lock-held section that appends
bind_recheck(list, group_id, steamid64) ==
    bind_conflict(list, group_id, steamid64)

\* the command arrives in a group for a member (its sender, or the member
\* named by the optional argument) and _resolve_steamid64 finds the account
\* (a handler that returns one of its texts before that touches nothing)
BindReceive(t) ==
    /\ FirstIdle(t)
    /\ IdsLeft
    /\ \E g \in CmdGroups, m \in Members, a \in Accounts :
         cmd' = [cmd EXCEPT ![t] =
                    [Idle EXCEPT !.op = "bind", !.pc = "check",
                                     !.group_id = g, !.sender_id = m,
                                     !.steamid64 = a]]
    /\ UNCHANGED <<pollVars, lock, newsVars, nextId, reply, lifeVars>>

\* a first section whose lock is still held at the fetch
BindCheckKeepsLock(t) ==
    /\ cmd[t].op = "bind"
    /\ cmd[t].pc = "check"
    /\ lock = "free"
    /\ lock' = t
    /\ cmd' = [cmd EXCEPT ![t].pc = "fetch"]
    /\ UNCHANGED <<pollVars, newsVars, nextId, reply, lifeVars>>

\* the first lock-held section: a binding of the group that holds the
\* account ends the handler
BindCheck(t) ==
    /\ cmd[t].op = "bind"
    /\ cmd[t].pc = "check"
    /\ lock = "free"
    /\ LET i == bind_conflict(bindings, cmd[t].group_id, cmd[t].steamid64)
       IN  IF i # 0
           THEN Returns(t, conflict_reply(bindings, i, cmd[t].sender_id),
                        NoRecord)
           ELSE /\ cmd' = [cmd EXCEPT ![t].pc = "fetch"]
                /\ UNCHANGED reply
    /\ UNCHANGED <<pollVars, lock, newsVars, nextId, lifeVars>>

\* _fetch_player_summary returns a summary and the record is built with a
\* fresh id
BindFetch(t) ==
    /\ cmd[t].op = "bind"
    /\ cmd[t].pc = "fetch"
    /\ \E p \in BindSummaries :
         cmd' = [cmd EXCEPT ![t].pc = "lock",
                            ![t].rec = bind_record(
                                           BindingIdSeq[MaxBindings + nextId + 1],
                                           cmd[t].group_id, cmd[t].sender_id,
                                           cmd[t].steamid64, p, clock)]
    /\ nextId' = nextId + 1
    /\ UNCHANGED reply
    /\ UNCHANGED <<pollVars, lock, newsVars, lifeVars>>

\* _fetch_player_summary returns None: the handler returns its failure text
BindFetchFailed(t) ==
    /\ cmd[t].op = "bind"
    /\ cmd[t].pc = "fetch"
    /\ Returns(t, "fetch failed", NoRecord)
    /\ UNCHANGED <<pollVars, lock, newsVars, nextId, lifeVars>>

\* an append and a save made without the lock
BindAppendsUnlocked(t) ==
    /\ cmd[t].op = "bind"
    /\ cmd[t].pc = "lock"
    /\ bindings' = Append(bindings, cmd[t].rec)
    /\ cmd' = [cmd EXCEPT ![t].pc = "save"]
    /\ UNCHANGED <<clock, stored, pc, passLocals, lock, newsVars, nextId,
                   reply, lifeVars>>

\* a second section that appends before it looks
BindLockedAppendsFirst(t) ==
    /\ cmd[t].op = "bind"
    /\ cmd[t].pc = "lock"
    /\ lock = "free"
    /\ bindings' = Append(bindings, cmd[t].rec)
    /\ LET i == bind_recheck(bindings, cmd[t].group_id, cmd[t].steamid64)
       IN  IF i # 0
           THEN /\ Returns(t, conflict_reply(bindings, i, cmd[t].sender_id),
                           cmd[t].rec)
                /\ UNCHANGED lock
           ELSE /\ lock' = t
                /\ cmd' = [cmd EXCEPT ![t].pc = "save"]
                /\ UNCHANGED reply
    /\ UNCHANGED <<clock, stored, pc, passLocals, newsVars, nextId, lifeVars>>

\* the second lock-held section: the loop again, then the append and the
\* start of the save
BindLocked(t) ==
    /\ cmd[t].op = "bind"
    /\ cmd[t].pc = "lock"
    /\ lock = "free"
    /\ LET i == bind_recheck(bindings, cmd[t].group_id, cmd[t].steamid64)
       IN  IF i # 0
           THEN /\ Returns(t, conflict_reply(bindings, i, cmd[t].sender_id),
                           cmd[t].rec)
                /\ UNCHANGED <<bindings, lock>>
           ELSE /\ bindings' = Append(bindings, cmd[t].rec)
                /\ lock' = t
                /\ cmd' = [cmd EXCEPT ![t].pc = "save"]
                /\ UNCHANGED reply
    /\ UNCHANGED <<clock, stored, pc, passLocals, newsVars, nextId, lifeVars>>

\* _save_state_unlocked returns: the document holds both lists; the lock is
\* released and the handler returns
BindSaved(t) ==
    /\ cmd[t].op = "bind"
    /\ cmd[t].pc = "save"
    /\ SaveState
    /\ lock' = "free"
    /\ Returns(t, "bound", NoRecord)
    /\ UNCHANGED <<clock, bindings, pc, passLocals, subs, newsLocals, nextId,
                   lifeVars>>

\* the bindings _handle_unbind keeps: those of other groups and members
unbind_kept(list, group_id, sender_id) ==
    SelectSeq(list, LAMBDA b :
                 ~(b.group_id = group_id /\ b.sender_id = sender_id))

\* the unbind command of a member takes the lock and replaces the list; the
\* save starts when a binding was removed, else the handler returns
Unbind(t) ==
    /\ FirstIdle(t)
    /\ lock = "free"
    /\ \E g \in CmdGroups, m \in Members :
         LET kept == unbind_kept(bindings, g, m)
         IN  /\ bindings' = kept
             /\ IF Len(kept) < Len(bindings)
                THEN /\ lock' = t
                     /\ cmd' = [cmd EXCEPT ![t] =
                                   [Idle EXCEPT !.op = "unbind",
                                                !.pc = "save",
                                                !.group_id = g,
                                                !.sender_id = m]]
                     /\ UNCHANGED reply
                ELSE /\ Returns(t, "not bound", NoRecord)
                     /\ UNCHANGED lock
    /\ UNCHANGED <<clock, stored, pc, passLocals, newsVars, nextId, lifeVars>>

UnbindSaved(t) ==
    /\ cmd[t].op = "unbind"
    /\ cmd[t].pc = "save"
    /\ SaveState
    /\ lock' = "free"
    /\ Returns(t, "unbound", NoRecord)
    /\ UNCHANGED <<clock, bindings, pc, passLocals, subs, newsLocals, nextId,
                   lifeVars>>

\* the pass takes its snapshot when the lock is free
LockedPollSnapshot ==
    /\ lock = "free"
    /\ PollSnapshot

\* the fetch of the summaries, outside the lock
CmdPollClassify == PollClassifyFrom(CmdSummaries)

\* the write-back takes the lock, replaces the list and starts the save
LockedPollWriteBack ==
    /\ pc = "write"
    /\ lock = "free"
    /\ bindings' = write_back(bindings, updates)
    /\ lock' = "poll"
    /\ pc' = "save"
    /\ UNCHANGED <<clock, stored, passLocals, newsVars, cmdVars, lifeVars>>

\* the pass returns and, with no subscription, so does the news pass; the
\* history of the passes is not kept here
CmdPollReturn == PollEnds("sleep", lastPass)

\* _save_state_unlocked returns and the lock is released
PollSaved ==
    /\ pc = "save"
    /\ SaveState
    /\ lock' = "free"
    /\ pc' = "written"
    /\ UNCHANGED <<clock, bindings, passLocals, subs, newsLocals, cmdVars,
                   lifeVars>>

NextCmd ==
    \/ LockedPollSnapshot
    \/ CmdPollClassify
    \/ PollPush
    \/ PollPushFail
    \/ LockedPollWriteBack
    \/ PollSaved
    \/ CmdPollReturn
    \/ \E t \in CmdTasks : BindReceive(t)
    \/ \E t \in CmdTasks : BindCheck(t)
    \/ \E t \in CmdTasks : BindFetch(t)
    \/ \E t \in CmdTasks : BindFetchFailed(t)
    \/ \E t \in CmdTasks : BindLocked(t)
    \/ \E t \in CmdTasks : BindSaved(t)
    \/ \E t \in CmdTasks : Unbind(t)
    \/ \E t \in CmdTasks : UnbindSaved(t)

SpecCmd == InitCmd /\ [][NextCmd]_vars

(***************************************************************************)
(* The poll loop with both passes, next to the three commands that change  *)
(* the document.                                                           *)
(***************************************************************************)
\* the player-status pass returns and the news pass is next; a pass that
\* raised sends the loop to its retry sleep
PollReturnToNews ==
    PollEnds(IF pc = "failed" THEN "sleep" ELSE "news", lastPass)

NextAll ==
    \/ LockedPollSnapshot
    \/ CmdPollClassify
    \/ PollPush
    \/ PollPushFail
    \/ LockedPollWriteBack
    \/ PollSaved
    \/ PollReturnToNews
    \/ NewsSnapshot
    \/ NewsStep
    \/ NewsStepFail
    \/ NewsWriteBack
    \/ NewsSaved
    \/ NewsReturn
    \/ \E t \in CmdTasks : BindReceive(t)
    \/ \E t \in CmdTasks : BindCheck(t)
    \/ \E t \in CmdTasks : BindFetch(t)
    \/ \E t \in CmdTasks : BindFetchFailed(t)
    \/ \E t \in CmdTasks : BindLocked(t)
    \/ \E t \in CmdTasks : BindSaved(t)
    \/ \E t \in CmdTasks : Unbind(t)
    \/ \E t \in CmdTasks : UnbindSaved(t)
    \/ \E t \in CmdTasks : SubscribeReceive(t)
    \/ \E t \in CmdTasks : SubscribeFetchGid(t)
    \/ \E t \in CmdTasks : SubscribeLocked(t)
    \/ \E t \in CmdTasks : SubscribeSaved(t)

SpecAll == InitCmd /\ [][NextAll]_vars

(***************************************************************************)
(* The lifecycle: initialize and terminate of the plugin instances, the    *)
(* poll loop tasks they create and cancel, and the class-level handle      *)
(* SteamWatch._global_poll_task, in the steps between which other tasks    *)
(* run.                                                                    *)
(***************************************************************************)
\* largest number of poll loop tasks created
MaxTasks == 3

InitLife ==
    /\ clock = 1
    /\ bindings = <<>>
    /\ stored = <<>>
    /\ pc = "sleep"
    /\ NoPlayerPass
    /\ lock = "free"
    /\ NoNews
    /\ NoCommands
    /\ NoLifecycle

\* task.done()
Done(k) == tasks[k].status = "done"

\* `t and not t.done()` for a handle t
Alive(k) == k # NoTask /\ ~Done(k)

\* task.cancel(): a task that is not done gets its cancellation request
cancel(k) ==
    [tasks EXCEPT ![k].status =
        IF tasks[k].status = "running" THEN "cancelling" ELSE @]

\* a handle that is cleared whatever it refers to
clear_always(handle, k) == NoTask

\* `if SteamWatch._global_poll_task is task: ... = None`, in terminate and in
\* the loop's finally
clear_if_current(handle, k) == IF handle = k THEN NoTask ELSE handle

\* initialize is called on an instance whose own loop is not running (else
\* it returns at once): a registered loop that is not done is cancelled and
\* awaited, otherwise the call goes on to load the state
InitializeCall(c, i) ==
    /\ calls[c].op = "idle"
    /\ ~Alive(poll_task[i])
    /\ IF Alive(global_poll_task)
       THEN /\ tasks' = cancel(global_poll_task)
            /\ calls' = [calls EXCEPT ![c] =
                            [op |-> "initialize", inst |-> i,
                             pc |-> "await", task |-> global_poll_task]]
       ELSE /\ calls' = [calls EXCEPT ![c] =
                            [op |-> "initialize", inst |-> i,
                             pc |-> "load", task |-> NoTask]]
            /\ UNCHANGED tasks
    /\ UNCHANGED <<pollVars, lock, newsVars, cmdVars, poll_task, stop,
                   global_poll_task, loopVars>>

\* the awaited loop has finished: the handle is set to None and the call goes
\* on to load the state
InitializeAwaited(c) ==
    /\ calls[c].op = "initialize"
    /\ calls[c].pc = "await"
    /\ Done(calls[c].task)
    /\ global_poll_task' = NoTask
    /\ calls' = [calls EXCEPT ![c].pc = "load", ![c].task = NoTask]
    /\ UNCHANGED <<pollVars, lock, newsVars, cmdVars, poll_task, stop, tasks,
                   loopVars>>

\* _load_state has returned: the loop task is created and registered, and
\* the call returns
InitializeStart(c) ==
    /\ calls[c].op = "initialize"
    /\ calls[c].pc = "load"
    /\ Len(tasks) < MaxTasks
    /\ LET i == calls[c].inst
           k == Len(tasks) + 1
       IN  /\ stop' = [stop EXCEPT ![i] = FALSE]
           /\ tasks' = Append(tasks, [owner |-> i, status |-> "running",
                                      terminated |-> FALSE])
           /\ poll_task' = [poll_task EXCEPT ![i] = k]
           /\ global_poll_task' = k
    /\ calls' = [calls EXCEPT ![c] = NoCall]
    /\ UNCHANGED <<pollVars, lock, newsVars, cmdVars, loopVars>>

\* terminate is called on an instance: the stop flag is set, the handle of
\* the instance is taken and cleared, a loop that is not done is cancelled
\* and awaited; with no such loop the call clears the registered handle if
\* it is the taken one, and returns
TerminateCall(c, i) ==
    /\ calls[c].op = "idle"
    \* (a call that finds the flag set and no handle changes nothing)
    /\ ~stop[i] \/ poll_task[i] # NoTask
    /\ stop' = [stop EXCEPT ![i] = TRUE]
    /\ poll_task' = [poll_task EXCEPT ![i] = NoTask]
    /\ IF Alive(poll_task[i])
       THEN /\ tasks' = cancel(poll_task[i])
            /\ calls' = [calls EXCEPT ![c] =
                            [op |-> "terminate", inst |-> i,
                             pc |-> "await", task |-> poll_task[i]]]
            /\ UNCHANGED global_poll_task
       ELSE /\ global_poll_task' =
                   clear_if_current(global_poll_task, poll_task[i])
            /\ tasks' = IF poll_task[i] = NoTask THEN tasks
                        ELSE [tasks EXCEPT ![poll_task[i]].terminated = TRUE]
            /\ UNCHANGED calls
    /\ UNCHANGED <<pollVars, lock, newsVars, cmdVars, loopVars>>

\* the awaited loop has finished: the registered handle is cleared if it is
\* the taken one, and terminate returns
TerminateAwaited(c) ==
    /\ calls[c].op = "terminate"
    /\ calls[c].pc = "await"
    /\ Done(calls[c].task)
    /\ global_poll_task' = clear_if_current(global_poll_task, calls[c].task)
    /\ tasks' = [tasks EXCEPT ![calls[c].task].terminated = TRUE]
    /\ calls' = [calls EXCEPT ![c] = NoCall]
    /\ UNCHANGED <<pollVars, lock, newsVars, cmdVars, poll_task, stop,
                   loopVars>>

\* the loop task ends: its cancellation reaches it at an await, or it finds
\* the stop flag of its instance set at the top of an iteration; its finally
\* clears the registered handle if it is the task's own
LoopExit(k) ==
    /\ k \in DOMAIN tasks
    /\ \/ tasks[k].status = "cancelling"
       \/ tasks[k].status = "running" /\ stop[tasks[k].owner]
    /\ tasks' = [tasks EXCEPT ![k].status = "done"]
    /\ global_poll_task' = clear_if_current(global_poll_task, k)
    /\ UNCHANGED <<pollVars, lock, newsVars, cmdVars, poll_task, stop, calls,
                   loopVars>>

NextLife ==
    \/ \E c \in Callers, i \in Instances : InitializeCall(c, i)
    \/ \E c \in Callers : InitializeAwaited(c)
    \/ \E c \in Callers : InitializeStart(c)
    \/ \E c \in Callers, i \in Instances : TerminateCall(c, i)
    \/ \E c \in Callers : TerminateAwaited(c)
    \/ \E k \in 1..MaxTasks : LoopExit(k)

SpecLife == InitLife /\ [][NextLife]_vars

(***************************************************************************)
(* Vocabulary of the news properties.                                      *)
(***************************************************************************)
\* the subscription with this id in self._game_subscriptions
CurrentSub(sid) == subs[IndexOf(subs, sid)]

\* the subscription with this id in the persisted document
StoredSub(sid) == storedSubs[IndexOf(storedSubs, sid)]

\* the news pass fetched a non-empty gid for the i-th subscription of its
\* snapshot
FetchedGid(i) ==
    fetched[nsnap[i].id].found /\ fetched[nsnap[i].id].gid # ""

\* every message of the pass for the i-th subscription went to the
\* subscription's session and carries the fetched gid
SentToOwnSession(i) ==
    \A k \in DOMAIN newsOutbox :
        newsOutbox[k].sid = nsnap[i].id
            => /\ newsOutbox[k].session = nsnap[i].session
               /\ newsOutbox[k].gid = fetched[nsnap[i].id].gid

(***************************************************************************)
(* C11: in a news pass that writes back, a subscription whose stored gid g *)
(* is non-empty and whose fetched gid h is non-empty and differs from g    *)
(* gets exactly one news message, sent to its session, and h is stored as  *)
(* its last_news_gid; in the following written-back pass of that           *)
(* subscription a fetch of h again dispatches nothing and leaves h stored. *)
(***************************************************************************)
C11_NewGidDispatchedOnce ==
    pc = "nwritten" =>
      \A i \in DOMAIN nsnap :
        LET s == nsnap[i]
            latest == fetched[s.id]
        IN  /\ (s.last_news_gid # "" /\ FetchedGid(i)
                  /\ latest.gid # s.last_news_gid)
                 => /\ SentFor(newsOutbox, s.id) = 1
                    /\ SentToOwnSession(i)
                    /\ CurrentSub(s.id).last_news_gid = latest.gid
                    /\ StoredSub(s.id).last_news_gid = latest.gid
            /\ (lastNews[s.id] # "" /\ FetchedGid(i)
                  /\ latest.gid = lastNews[s.id])
                 => /\ SentFor(newsOutbox, s.id) = 0
                    /\ CurrentSub(s.id).last_news_gid = lastNews[s.id]
                    /\ StoredSub(s.id).last_news_gid = lastNews[s.id]

\* a pass dispatched h for a subscription and the following pass, which
\* fetched h again, has written back
C11_Witness ==
    /\ pc = "nwritten"
    /\ \E i \in DOMAIN nsnap :
         /\ lastNews[nsnap[i].id] # ""
         /\ FetchedGid(i)
         /\ fetched[nsnap[i].id].gid = lastNews[nsnap[i].id]
         /\ newsOutbox = <<>>

C15_OneSubscriptionPerGame ==
    /\ \A i, j \in DOMAIN subs :
         (i # j /\ subs[i].group_id = subs[j].group_id)
             => subs[i].appid # subs[j].appid
    /\ \A i, j \in DOMAIN storedSubs :
         (i # j /\ storedSubs[i].group_id = storedSubs[j].group_id)
             => storedSubs[i].appid # storedSubs[j].appid
    /\ reply.text = "already subscribed"
         => \A i \in DOMAIN subs : subs[i].id # reply.rec.id

\* two handlers built a record for the same group and game; one has appended
\* its record, the other has found it under the lock and returned
C15_Witness ==
    /\ reply.text = "already subscribed"
    /\ \E i \in DOMAIN subs :
         /\ subs[i].id \in {SubIdSeq[MaxSubs + k] : k \in 1..MaxIds}
         /\ subs[i].group_id = reply.rec.group_id
         /\ subs[i].appid = reply.rec.appid

(***************************************************************************)
(* C13: after any sequence of bind, unbind and poll operations the         *)
(* bindings list holds at most one binding per group and member.           *)
(***************************************************************************)
C13_OneBindingPerMember ==
    \A i, j \in DOMAIN bindings :
        (i # j /\ bindings[i].group_id = bindings[j].group_id)
            => bindings[i].sender_id # bindings[j].sender_id

(***************************************************************************)
(* C14: under every interleaving of bind commands, each of which runs      *)
(* other tasks between its first check and its append, the bindings list   *)
(* (in memory and in the document) holds at most one binding per group and *)
(* Steam account.                                                          *)
(***************************************************************************)
C14_OneBindingPerAccount ==
    /\ \A i, j \in DOMAIN bindings :
         (i # j /\ bindings[i].group_id = bindings[j].group_id)
             => bindings[i].steamid64 # bindings[j].steamid64
    /\ \A i, j \in DOMAIN stored :
         (i # j /\ stored[i].group_id = stored[j].group_id)
             => stored[i].steamid64 # stored[j].steamid64

\* two handlers passed the first check for one account of one group; one
\* has appended its record, the other has built its record and found the
\* first one's in its second check
C14_Witness ==
    /\ reply.text = "bound by another member"
    /\ reply.rec # NoRecord
    /\ \E i \in DOMAIN bindings :
         /\ bindings[i].group_id = reply.rec.group_id
         /\ bindings[i].steamid64 = reply.rec.steamid64
         /\ bindings[i].sender_id # reply.rec.sender_id

(***************************************************************************)
(* Vocabulary of the lock properties.                                      *)
(***************************************************************************)
\* the tasks whose _save_state_unlocked is in progress
Savers ==
    (IF pc \in {"save", "nsave"} THEN {"poll"} ELSE {})
        \cup {t \in CmdTasks : cmd[t].pc = "save"}

\* the tasks that are at a fetch, a lookup, an enrichment, a render or a
\* dispatch
LongSteppers ==
    (IF pc \in {"fetch", "push", "nloop"} THEN {"poll"} ELSE {})
        \cup {t \in CmdTasks : cmd[t].pc \in {"fetch", "fetch_gid"}}

\* the persisted document
Document == [bindings |-> stored, game_subscriptions |-> storedSubs]

\* the ids of a list of records, in order
IdsOf(list) == [i \in DOMAIN list |-> list[i].id]

(***************************************************************************)
(* C18: under every interleaving of bind, unbind and subscribe commands    *)
(* with poll passes, whenever the lock is free the persisted document      *)
(* holds exactly the bindings and the subscriptions held in memory (same   *)
(* records, same order), and loading the document, saving what was loaded  *)
(* and loading again gives the same bindings by id.                        *)
(***************************************************************************)
C18_DocumentMatchesMemory ==
    lock = "free" =>
        /\ load_state(Document)[1] = bindings
        /\ load_state(Document)[2] = subs
        /\ LET once == load_state(Document)
               again == load_state(write_state(once[1], once[2]))
           IN  IdsOf(again[1]) = IdsOf(bindings)

\* the lock is free after a write-back of a pass during which a command
\* changed the bindings list, and a subscription exists
C18_Witness ==
    /\ lock = "free"
    /\ pc = "written"
    /\ Len(bindings) # Len(snapshot)
    /\ subs # <<>>

(***************************************************************************)
(* C19: no task is at a fetch, lookup, enrichment, render or dispatch step *)
(* while it holds the lock: the poll task holds the lock only in its       *)
(* snapshot and write-back sections, a command only in its check and       *)
(* mutation sections, each of which ends with the save of the document.    *)
(***************************************************************************)
C19_NoLongStepUnderLock ==
    /\ lock \in {"free", "poll"} \cup CmdTasks
    /\ lock \notin LongSteppers
    /\ lock = "poll" => pc \in {"save", "nsave"}
    /\ \A t \in CmdTasks : lock = t => cmd[t].pc = "save"

\* the poll task is at its dispatch while one command holds the lock and
\* another one is at its fetch
C19_Witness ==
    /\ pc = "push"
    /\ lock \in CmdTasks
    /\ \E t \in CmdTasks : cmd[t].pc = "fetch"

RunningLoops == {k \in DOMAIN tasks : tasks[k].status = "running"}

(***************************************************************************)
(* C16: under every interleaving of initialize and terminate calls on one  *)
(* or several instances, two overlapping initialize calls included, at     *)
(* most one poll loop task is running.                                     *)
(***************************************************************************)
C16_AtMostOneLoop == Cardinality(RunningLoops) <= 1

(***************************************************************************)
(* C17: a terminate call that waits for the loop of its instance has       *)
(* cancelled it, and the call returns only when that loop has finished;    *)
(* a step of terminate or the exit of a loop changes the registered handle *)
(* only from the call's own (the exiting) loop to none, so it leaves the   *)
(* handle of another instance's loop in place.                             *)
(***************************************************************************)
C17_TerminateAwaitsAndSparesHandle ==
    /\ [](\A c \in Callers :
            (calls[c].op = "terminate" /\ calls[c].pc = "await")
                => tasks[calls[c].task].status \in {"cancelling", "done"})
    /\ [](\A k \in DOMAIN tasks : tasks[k].terminated => Done(k))
    /\ [][/\ \A c \in Callers :
               TerminateAwaited(c)
                   => \/ global_poll_task' = global_poll_task
                      \/ /\ global_poll_task = calls[c].task
                         /\ global_poll_task' = NoTask
          /\ \A c \in Callers, i \in Instances :
               TerminateCall(c, i)
                   => \/ global_poll_task' = global_poll_task
                      \/ /\ global_poll_task = poll_task[i]
                         /\ global_poll_task' = NoTask
          /\ \A k \in DOMAIN tasks :
               LoopExit(k)
                   => \/ global_poll_task' = global_poll_task
                      \/ /\ global_poll_task = k
                         /\ global_poll_task' = NoTask]_vars

\* the terminate of an instance has waited for its loop and returned while
\* the loop that another instance registered later is running and still
\* registered
C17_Witness ==
    \E k, n \in DOMAIN tasks :
        /\ k < n
        /\ tasks[k].terminated
        /\ tasks[k].owner # tasks[n].owner
        /\ tasks[n].status = "running"
        /\ global_poll_task = n
        /\ poll_task[tasks[k].owner] = NoTask

(***************************************************************************)
(* _poll_loop: the iterations of the loop task that initialize created for *)
(* one instance, its sleeps, its handlers of the errors and of the         *)
(* cancellation of an iteration, and the terminate call that cancels it,   *)
(* in the steps between which other tasks run.                             *)
(***************************************************************************)
\* the instance whose loop runs, and the number of its task
LoopOwner == "A"
LoopTask == 1

\* the task that calls terminate
LoopCallers == {"c1"}

\* characters of the configured texts
ConfigChars == {"0", "1", "6", "-", " ", "x"}

\* the configured texts: every text of at most MaxConfigLen characters
ConfigTexts == UNION {[1..n -> ConfigChars] : n \in 0..MaxConfigLen}

\* the configured texts of the runs that watch bindings
LoopConfigs == {DefaultConfig, <<"1", "6">>}

\* the summaries the loop's passes fetch
LoopSummaries == CmdSummaries \cup BindSummaries

\* the document of the runs that watch bindings: two members of two groups
\* watch one account
LoopDocument ==
    <<unset_record("b1", "g1", "m1", "s1"),
      unset_record("b2", "g2", "m2", "s1")>>

\* initialize has returned: the state is loaded, the loop task is created
\* and registered and has not run yet
InitLoop ==
    /\ clock = 1
    /\ \/ bindings = <<>> /\ config \in ConfigTexts
       \/ bindings = LoopDocument /\ config \in LoopConfigs
    /\ stored = bindings
    /\ pc = "start"
    /\ NoPlayerPass
    /\ lock = "free"
    /\ NoNews
    /\ NoCommands
    /\ poll_task = [i \in Instances |->
                       IF i = LoopOwner THEN LoopTask ELSE NoTask]
    /\ stop = [i \in Instances |-> FALSE]
    /\ global_poll_task = LoopTask
    /\ tasks = <<[owner |-> LoopOwner, status |-> "running",
                  terminated |-> FALSE]>>
    /\ calls = [c \in Callers |-> NoCall]
    /\ poll_interval_sec = parse_poll_interval_sec(config)
    /\ delay = 0
    /\ enrich = NoEnrichment
    /\ NoAux

\* the loop task has not been cancelled and has not finished
LoopRuns == tasks[LoopTask].status = "running"

\* the positions of the loop task inside an iteration
PassSteps == {"fetch", "empty", "push", "write", "save", "written"}

\* the locals of a pass that has returned or raised are gone
NoPassLocals ==
    /\ snapshot' = <<>>
    /\ players' = [a \in Accounts |-> Absent]
    /\ updates' = <<>>
    /\ changes' = <<>>
    /\ outbox' = {}

\* `while not self._stop:` at the start of the task and after each sleep:
\* with the flag set the loop ends and the task returns through its finally;
\* otherwise the next iteration starts and the pass copies the bindings out
\* under the lock (the clock stops at the largest value it can reach)
LoopTop ==
    /\ LoopRuns
    /\ pc \in {"start", "sleep", "retry"}
    /\ delay' = 0
    /\ IF stop[tasks[LoopTask].owner]
       THEN /\ pc' = "returned"
            /\ tasks' = [tasks EXCEPT ![LoopTask].status = "done"]
            /\ global_poll_task' = clear_if_current(global_poll_task, LoopTask)
            /\ UNCHANGED <<clock, snapshot>>
       ELSE /\ lock = "free"
            /\ clock' = IF clock < MaxClock THEN clock + 1 ELSE clock
            /\ snapshot' = bindings
            /\ pc' = IF bindings = <<>> THEN "empty" ELSE "fetch"
            /\ UNCHANGED <<tasks, global_poll_task>>
    /\ UNCHANGED <<bindings, stored, players, updates, changes, outbox,
                   lastPass, lock, newsVars, cmdVars, poll_task, stop, calls,
                   config, poll_interval_sec, auxVars, enrich>>

LoopClassify == LoopRuns /\ PollClassifyFrom(LoopSummaries)

LoopPush == LoopRuns /\ PollPush

LoopWriteBack == LoopRuns /\ LockedPollWriteBack

LoopSaved == LoopRuns /\ PollSaved

\* an iteration whose error ends the task
LoopRaisesUnhandled ==
    /\ LoopRuns
    /\ pc \in {"fetch", "push", "save"}
    /\ pc' = "raised"
    /\ tasks' = [tasks EXCEPT ![LoopTask].status = "done"]
    /\ lock' = IF pc = "save" THEN "free" ELSE lock
    /\ NoPassLocals
    /\ UNCHANGED <<clock, bindings, stored, lastPass, newsVars, cmdVars,
                   poll_task, stop, global_poll_task, calls, loopVars>>

\* `except Exception:` an error of the fetch or the classification, of the
\* dispatch, or of the save (which leaves the lock section) reaches the
\* handler of the loop: the task sleeps the retry delay
LoopRaises ==
    /\ LoopRuns
    /\ pc \in {"fetch", "push", "save"}
    /\ pc' = "retry"
    /\ delay' = RetryDelay
    /\ lock' = IF pc = "save" THEN "free" ELSE lock
    /\ NoPassLocals
    /\ UNCHANGED <<clock, bindings, stored, lastPass, newsVars, cmdVars,
                   poll_task, stop, global_poll_task, tasks, calls, config,
                   poll_interval_sec, auxVars, enrich>>

\* the pass has returned; with no subscription the news pass returns at
\* once, and the task sleeps the configured interval
LoopSleeps ==
    /\ LoopRuns
    /\ pc \in {"written", "empty"}
    /\ lock = "free"
    /\ pc' = "sleep"
    /\ delay' = poll_interval_sec
    /\ NoPassLocals
    /\ UNCHANGED <<clock, bindings, stored, lastPass, lock, newsVars, cmdVars,
                   poll_task, stop, global_poll_task, tasks, calls, config,
                   poll_interval_sec, auxVars, enrich>>

\* the cancellation reaches the task where it waits.  A task that has not
\* run yet ends cancelled without running its finally; in the retry sleep
\* the cancellation leaves the handler it was raised in; everywhere else
\* `except asyncio.CancelledError: return` ends the task.  A cancelled save
\* leaves the lock section, and its worker thread has written the document
\* or has not started.  The locals of the interrupted pass are kept as
\* history.
LoopCancelled ==
    /\ tasks[LoopTask].status = "cancelling"
    /\ tasks' = [tasks EXCEPT ![LoopTask].status = "done"]
    /\ pc' = IF pc \in {"start", "retry"} THEN "cancelled" ELSE "caught"
    /\ global_poll_task' =
         IF pc = "start" THEN global_poll_task
         ELSE clear_if_current(global_poll_task, LoopTask)
    /\ delay' = 0
    /\ IF pc = "save"
       THEN /\ lock' = "free"
            /\ stored' \in {stored, write_state(bindings, subs).bindings}
       ELSE UNCHANGED <<lock, stored>>
    /\ UNCHANGED <<clock, bindings, passLocals, newsVars, cmdVars, poll_task,
                   stop, calls, config, poll_interval_sec, auxVars, enrich>>

NextLoop ==
    \/ LoopTop
    \/ LoopClassify
    \/ LoopPush
    \/ LoopRaises
    \/ LoopWriteBack
    \/ LoopSaved
    \/ LoopSleeps
    \/ LoopCancelled
    \/ \E c \in LoopCallers : TerminateCall(c, LoopOwner)
    \/ \E c \in LoopCallers : TerminateAwaited(c)

\* the event loop runs every task that is ready: a sleep of the loop task
\* returns, and a requested cancellation is delivered
SpecLoop ==
    /\ InitLoop
    /\ [][NextLoop]_vars
    /\ WF_vars(LoopTop)
    /\ WF_vars(LoopCancelled)

(***************************************************************************)
(* _generate_llm_comment: the text of the provider's reply, a sequence of  *)
(* characters, as the handler returns it.  The characters outside ASCII    *)
(* are written by their code points: u3002 is the ideographic full stop,   *)
(* uff0c, uff01 and uff1f the fullwidth comma, exclamation and question    *)
(* marks, u201c, u201d, u2018 and u2019 the curly quotes.                  *)
(***************************************************************************)
\* `if len(text) > 28`
CommentLimit == 28
\* largest number of letters of a provider reply
MaxReplyLen == 30

\* the characters of text.strip(" \"'...") after the whitespace is collapsed
QuoteChars == {" ", "\"", "'", "u201c", "u201d", "u2018", "u2019"}

\* the characters of rstrip(...) in the truncation
TerminalMarks ==
    {"uff0c", "u3002", ",", ".", "!", "?", "uff01", "uff1f"}

\* re.sub(r"\s+", " ", text)
RECURSIVE collapse_whitespace(_)
collapse_whitespace(text) ==
    IF text = <<>> THEN <<>>
    ELSE IF IsSpace(Head(text))
    THEN <<" ">> \o collapse_whitespace(lstrip(text))
    ELSE <<Head(text)>> \o collapse_whitespace(Tail(text))

RECURSIVE lstrip_chars(_, _)
lstrip_chars(text, chars) ==
    IF text # <<>> /\ Head(text) \in chars
    THEN lstrip_chars(Tail(text), chars) ELSE text

RECURSIVE rstrip_chars(_, _)
rstrip_chars(text, chars) ==
    IF text # <<>> /\ text[Len(text)] \in chars
    THEN rstrip_chars(SubSeq(text, 1, Len(text) - 1), chars)
    ELSE text

\* the reply stripped, its whitespace collapsed, its quotes stripped
clean_reply(raw) ==
    lstrip_chars(rstrip_chars(collapse_whitespace(strip(raw)), QuoteChars),
                 QuoteChars)

\* lines 973-978: a cleaned reply of more than 28 characters is cut to its
\* first 28, loses the marks at the end of those, and gets a full stop
sanitize_comment(raw) ==
    LET text == clean_reply(raw)
    IN  IF Len(text) > CommentLimit
        THEN rstrip_chars(SubSeq(text, 1, CommentLimit), TerminalMarks)
             \o <<"u3002">>
        ELSE text

\* n times the letter a
Letters(n) == [i \in 1..n |-> "a"]

\* the replies of the provider: letters and a tail, and two replies with
\* quotes and runs of whitespace
ReplyLens == (CommentLimit - 1)..MaxReplyLen
ReplyTails == {<<>>, <<"!", "u3002">>}
Replies ==
    {Letters(n) \o t : n \in ReplyLens, t \in ReplyTails}
    \cup {<<" ", "u201c">> \o Letters(1) \o <<" ", "\n", "b", "u201d", "\n">>,
          <<"\"">> \o Letters(CommentLimit) \o <<" ", " ", "b", ".", "'">>}

\* what happens when _generate_llm_comment is called: no provider is
\* available, get_using_provider raises, the call times out, the call
\* raises, or the provider replies; a get_provider_by_id that raises is
\* caught and get_using_provider is asked, with one of these answers
LlmAnswers ==
    {[kind |-> k, text |-> <<>>] :
        k \in {"no_provider", "lookup_raises", "timeout", "call_raises"}}
    \cup {[kind |-> "reply", text |-> r] : r \in Replies}

\* _generate_llm_comment was not called
NotAsked == [kind |-> "not_asked", text |-> <<>>]

\* _generate_llm_comment with _resolve_comment_provider: the text it
\* returns, or raised when an exception leaves it
generate_llm_comment(session, llm) ==
    IF session = "" THEN [raised |-> FALSE, text |-> <<>>]
    ELSE IF llm.kind = "lookup_raises" THEN [raised |-> TRUE, text |-> <<>>]
    ELSE IF llm.kind = "reply"
    THEN [raised |-> FALSE, text |-> sanitize_comment(llm.text)]
    ELSE [raised |-> FALSE, text |-> <<>>]

(***************************************************************************)
(* _build_change_entry and _push_group_state_changes: the enrichment of    *)
(* the change events of a session, the rendering of the session's card and *)
(* its dispatch.                                                           *)
(***************************************************************************)
\* `if new_state == "in_game" and appid > 0:`
is_start(e) == e.new_state = "in_game" /\ e.new_appid > 0

\* a branch taken for every change into online or offline
comment_wanted_any_exit(e) == ~is_start(e) /\ e.new_state \in EndStates

\* `elif old_state == "in_game" and new_state in {"online", "offline"}:` the
\* branch that calls _generate_llm_comment
comment_wanted(e) ==
    ~is_start(e) /\ e.old_state = "in_game" /\ e.new_state \in EndStates

\* _fetch_cover_image is called with a positive appid
cover_fetched(e) == is_start(e) \/ (comment_wanted(e) /\ e.old_appid > 0)

\* every fetch of the enrichment of the event gives a value
AllFetched(e) ==
    [avatar |-> TRUE, cover |-> cover_fetched(e), playtime |-> is_start(e)]

\* the answers of the collaborators to the enrichment of one event: avatar,
\* cover and playtime tell whether the fetch gave a value (a fetch that is
\* not made has the answer FALSE), llm is the answer to the commentary call;
\* either the fetches fail and the commentary has no provider, or every
\* fetch gives a value and the commentary call has any of its answers
Answers(e) ==
    LET fetches == {[avatar |-> av, cover |-> cv, playtime |-> pt] :
                       av \in BOOLEAN,
                       cv \in (IF cover_fetched(e) THEN BOOLEAN ELSE {FALSE}),
                       pt \in (IF is_start(e) THEN BOOLEAN ELSE {FALSE})}
        quiet == IF comment_wanted(e)
                 THEN [kind |-> "no_provider", text |-> <<>>] ELSE NotAsked
        llms == IF comment_wanted(e) THEN LlmAnswers ELSE {NotAsked}
    IN  {[avatar |-> f.avatar, cover |-> f.cover, playtime |-> f.playtime,
          llm |-> quiet] : f \in fetches}
        \cup {[avatar |-> AllFetched(e).avatar, cover |-> AllFetched(e).cover,
               playtime |-> AllFetched(e).playtime, llm |-> l] : l \in llms}

\* the dict _build_change_entry returns, or raised when an exception leaves
\* it; display_name is left out, `bid` names the event the entry was built
\* from
build_change_entry(e, session, a) ==
    LET comment == IF comment_wanted(e)
                   THEN generate_llm_comment(session, a.llm)
                   ELSE [raised |-> FALSE, text |-> <<>>]
        status_desc == IF e.network_jitter THEN "jitter"
                       ELSE IF is_start(e) THEN "start"
                       ELSE IF comment_wanted(e) THEN "ended"
                       ELSE "change"
        game_name == IF comment_wanted(e) /\ e.old_game # ""
                     THEN e.old_game ELSE e.new_game
        playtime_text ==
            IF is_start(e)
            THEN (IF a.playtime THEN "playtime" ELSE "unknown")
            ELSE IF comment_wanted(e)
            THEN (IF e.session_secs > 0 THEN "duration" ELSE "unknown")
            ELSE ""
    IN  [raised |-> comment.raised,
         entry |-> [bid |-> e.bid,
                    status_desc |-> status_desc,
                    game_name |-> game_name,
                    playtime_text |-> playtime_text,
                    comment_text |-> comment.text,
                    avatar |-> IF a.avatar THEN "image" ELSE "none",
                    cover |-> IF a.cover THEN "image" ELSE "none",
                    new_state |-> IF comment_wanted(e) THEN "ended"
                                  ELSE e.new_state]]

\* the entries collected as a gather would give them if it returned its
\* results in the order of completion, the last event's first
RECURSIVE enriched_entries_as_completed(_, _, _)
enriched_entries_as_completed(events, session, answers) ==
    IF events = <<>> THEN <<>>
    ELSE LET r == build_change_entry(Head(events), session,
                                     answers[Head(events).bid])
         IN  enriched_entries_as_completed(Tail(events), session, answers)
             \o (IF r.raised THEN <<>> ELSE <<r.entry>>)

\* the results of the gather that are dicts, in the order of the events
RECURSIVE enriched_entries(_, _, _)
enriched_entries(events, session, answers) ==
    IF events = <<>> THEN <<>>
    ELSE LET r == build_change_entry(Head(events), session,
                                     answers[Head(events).bid])
         IN  (IF r.raised THEN <<>> ELSE <<r.entry>>)
             \o enriched_entries(Tail(events), session, answers)

\* a push that sends one card per entry
session_messages_per_entry(session, entries, rendered) ==
    IF rendered
    THEN [k \in DOMAIN entries |-> [session |-> session, image |-> <<entries[k]>>]]
    ELSE <<>>

\* lines 885-891: no message without an entry or without a card, else one
\* message with the card of all entries
session_messages(session, entries, rendered) ==
    IF entries = <<>> \/ ~rendered THEN <<>>
    ELSE <<[session |-> session, image |-> entries]>>

\* the sessions in the order the pass pushes them
SessionSeq == <<"g1", "g2">>

\* the messages of `for session, changes in changes_by_session.items()`
RECURSIVE pushed_messages(_, _, _, _)
pushed_messages(n, chg, answers, rendered) ==
    IF n = 0 THEN <<>>
    ELSE pushed_messages(n - 1, chg, answers, rendered)
         \o (IF SessionSeq[n] \in DOMAIN chg
             THEN session_messages(
                      SessionSeq[n],
                      enriched_entries(chg[SessionSeq[n]], SessionSeq[n],
                                       answers),
                      rendered)
             ELSE <<>>)

\* the change events of the first n sessions
RECURSIVE events_of(_, _)
events_of(n, chg) ==
    IF n = 0 THEN <<>>
    ELSE events_of(n - 1, chg)
         \o (IF SessionSeq[n] \in DOMAIN chg THEN chg[SessionSeq[n]] ELSE <<>>)

\* the answers the collaborators can give to a sequence of events, by the
\* id of the event's binding
RECURSIVE answer_maps(_)
answer_maps(events) ==
    IF events = <<>> THEN {<<>>}
    ELSE {(Head(events).bid :> a) @@ f :
             a \in Answers(Head(events)), f \in answer_maps(Tail(events))}

\* the answers the collaborators can give to the events of the pass
AnswerMaps == answer_maps(events_of(Len(SessionSeq), changes))

\* the summaries the passes of the push fetch
PushSummaries ==
    {[personastate |-> 1, gameid |-> 1, gameextrainfo |-> "G"],
     [personastate |-> 1, gameid |-> 0, gameextrainfo |-> ""],
     [personastate |-> 0, gameid |-> 0, gameextrainfo |-> ""]}

\* the documents of the push: two members, bound while in a game, watch two
\* accounts in one group or in two
PushDocuments ==
    {<<bind_record("b1", "g1", "m1", "s1", p, 1),
       bind_record("b2", g, "m2", "s2", p, 1)>> :
        g \in Groups, p \in CmdSummaries}

InitPush ==
    /\ clock = 1
    /\ bindings \in PushDocuments
    /\ stored = bindings
    /\ pc = "sleep"
    /\ NoPlayerPass
    /\ lock = "free"
    /\ NoNews
    /\ NoCommands
    /\ NoLifecycle

PushClassify == PollClassifyFrom(PushSummaries)

\* the answers in which every fetch gives a value and no provider is
\* available
quiet_answers(events) ==
    [b \in {events[k].bid : k \in DOMAIN events} |->
        LET e == events[CHOOSE k \in DOMAIN events : events[k].bid = b]
        IN  [avatar |-> AllFetched(e).avatar, cover |-> AllFetched(e).cover,
             playtime |-> AllFetched(e).playtime,
             llm |-> IF comment_wanted(e)
                     THEN [kind |-> "no_provider", text |-> <<>>]
                     ELSE NotAsked]]

\* every session's push returns with its card rendered: the events are
\* enriched, and every session that has an entry gets its message
PushEnriched ==
    /\ pc = "push"
    /\ \E answers \in AnswerMaps :
         /\ enrich' = [answers |-> answers, rendered |-> TRUE]
         /\ outbox' = pushed_messages(Len(SessionSeq), changes, answers, TRUE)
    /\ pc' = "write"
    /\ UNCHANGED <<clock, bindings, stored, snapshot, players, updates,
                   changes, lastPass, lock, newsVars, cmdVars, poll_task,
                   stop, global_poll_task, tasks, calls, config,
                   poll_interval_sec, auxVars, delay>>

\* every session's push returns without a card (the imaging library is
\* missing): no message is sent
PushUnrendered ==
    /\ pc = "push"
    /\ LET answers == quiet_answers(events_of(Len(SessionSeq), changes))
       IN  /\ enrich' = [answers |-> answers, rendered |-> FALSE]
           /\ outbox' = pushed_messages(Len(SessionSeq), changes, answers,
                                        FALSE)
    /\ pc' = "write"
    /\ UNCHANGED <<clock, bindings, stored, snapshot, players, updates,
                   changes, lastPass, lock, newsVars, cmdVars, poll_task,
                   stop, global_poll_task, tasks, calls, config,
                   poll_interval_sec, auxVars, delay>>

\* the rendering or the send_message of some session raises: the sessions
\* before it have their messages, the pass ends without its write-back
PushRaises ==
    /\ pc = "push"
    /\ LET answers == quiet_answers(events_of(Len(SessionSeq), changes))
           msgs == pushed_messages(Len(SessionSeq), changes, answers, TRUE)
       IN  /\ msgs # <<>>
           /\ \E k \in DOMAIN msgs : outbox' = SubSeq(msgs, 1, k - 1)
           /\ enrich' = [answers |-> answers, rendered |-> TRUE]
    /\ pc' = "failed"
    /\ UNCHANGED <<clock, bindings, stored, snapshot, players, updates,
                   changes, lastPass, lock, newsVars, cmdVars, poll_task,
                   stop, global_poll_task, tasks, calls, config,
                   poll_interval_sec, auxVars, delay>>

\* the pass returns (or its exception reaches the loop's handler): its
\* locals are gone and the loop task sleeps
PushReturn ==
    /\ pc \in {"written", "failed", "empty"}
    /\ pc' = "sleep"
    /\ NoPassLocals
    /\ enrich' = NoEnrichment
    /\ UNCHANGED <<clock, bindings, stored, lastPass, lock, newsVars, cmdVars,
                   poll_task, stop, global_poll_task, tasks, calls, config,
                   poll_interval_sec, auxVars, delay>>

NextPush ==
    \/ PollSnapshot
    \/ PushClassify
    \/ PushEnriched
    \/ PushUnrendered
    \/ PushRaises
    \/ PollWriteBack
    \/ PushReturn

SpecPush == InitPush /\ [][NextPush]_vars

(***************************************************************************)
(* SteamStateStore.load_state and _read_state_sync: state.json is missing, *)
(* cannot be read, holds no JSON, or holds a JSON value.  A JSON value is  *)
(* a record with its type; an object has its keys in `fields`, a list its  *)
(* elements in `items`.                                                    *)
(***************************************************************************)
\* largest number of elements of a list in the file
MaxItems == 2

JsonNull == [type |-> "null"]
JsonNumber == [type |-> "number"]
JsonString == [type |-> "string"]
JsonList(items) == [type |-> "list", items |-> items]
JsonObject(fields) == [type |-> "object", fields |-> fields]

\* `{"bindings": [], "game_subscriptions": []}`
EmptyDocument ==
    JsonObject([k \in {"bindings", "game_subscriptions"} |-> JsonList(<<>>)])

\* _read_state_sync: the dict load_state works on
read_state_sync(f) ==
    IF f.kind = "missing" THEN EmptyDocument
    ELSE IF f.kind \in {"unreadable", "garbage"} THEN EmptyDocument
    ELSE IF f.value.type = "object" THEN f.value
    ELSE EmptyDocument

\* data.get(key) as load_state reads it: the list, or [] when the key is
\* missing or its value is no list
field_list(data, key) ==
    IF key \in DOMAIN data.fields /\ data.fields[key].type = "list"
    THEN data.fields[key].items
    ELSE <<>>

\* load_state that gives two empty lists when either field is no list
load_state_file_strict(f) ==
    LET data == read_state_sync(f)
        ok == \A k \in {"bindings", "game_subscriptions"} :
                 k \in DOMAIN data.fields /\ data.fields[k].type = "list"
    IN  IF ok THEN <<field_list(data, "bindings"),
                     field_list(data, "game_subscriptions")>>
        ELSE <<<<>>, <<>>>>

\* SteamStateStore.load_state on the file
load_state_file(f) ==
    LET data == read_state_sync(f)
    IN  IF data.type # "object" THEN <<<<>>, <<>>>>
        ELSE <<field_list(data, "bindings"),
               field_list(data, "game_subscriptions")>>

\* json.dumps of the payload of _write_state_sync
written_file(b, g) ==
    [kind |-> "json",
     value |-> JsonObject([k \in {"bindings", "game_subscriptions"} |->
                              JsonList(IF k = "bindings"
                                       THEN write_state(b, g).bindings
                                       ELSE write_state(b, g).game_subscriptions)])]

\* the elements of the lists of the file: a binding, a subscription, and
\* a string
StoreItems ==
    {unset_record("b1", "g1", "m1", "s1"),
     subscription_record("u1", "g1", 1, "n1"),
     JsonString}

StoreLists ==
    UNION {[1..n -> StoreItems] : n \in 0..MaxItems}

\* the values of a key of the document: no list, or a list
StoreFieldValues ==
    {JsonNull, JsonNumber, JsonString, JsonObject(<<>>)}
    \cup {JsonList(l) : l \in StoreLists}

\* the objects of the file: each of the two keys is missing or has a value
StoreObjects ==
    {JsonObject(f) :
        f \in UNION {[K -> StoreFieldValues] :
                        K \in SUBSET {"bindings", "game_subscriptions"}}}

\* the states of the file
StoreFiles ==
    {[kind |-> k] : k \in {"missing", "unreadable", "garbage"}}
    \cup {[kind |-> "json", value |-> v] :
             v \in {JsonNull, JsonNumber, JsonString, JsonList(<<>>)}
                 \cup StoreObjects}

InitStore ==
    /\ clock = 1
    /\ bindings = <<>>
    /\ stored = <<>>
    /\ pc = "start"
    /\ NoPlayerPass
    /\ lock = "free"
    /\ NoNews
    /\ NoCommands
    /\ IdleLifecycle
    /\ file \in StoreFiles
    /\ loaded = NothingLoaded
    /\ nick = <<>>
    /\ endedSince = [id \in BindingIds |-> FALSE]

\* _load_state: the two lists of the plugin are what load_state returns
StoreLoad ==
    /\ pc = "start"
    /\ loaded' = load_state_file(file)
    /\ bindings' = loaded'[1]
    /\ subs' = loaded'[2]
    /\ pc' = "sleep"
    /\ UNCHANGED <<clock, stored, passLocals, lock, storedSubs, newsLocals,
                   cmdVars, poll_task, stop, global_poll_task, tasks, calls,
                   config, poll_interval_sec, delay, enrich, file, nick,
                   endedSince>>

\* _save_state_unlocked: the file holds the payload of the two lists
StoreSave ==
    /\ pc = "sleep"
    /\ file' = written_file(bindings, subs)
    /\ pc' = "start"
    /\ UNCHANGED <<clock, bindings, stored, passLocals, lock, newsVars,
                   cmdVars, poll_task, stop, global_poll_task, tasks, calls,
                   config, poll_interval_sec, delay, enrich, loaded, nick,
                   endedSince>>

NextStore == StoreLoad \/ StoreSave

SpecStore == InitStore /\ [][NextStore]_vars

(***************************************************************************)
(* _fetch_group_nickname_map and _get_binding_latest_sender_name: the      *)
(* refresh of a binding's sender_name when the pass emits an event for it. *)
(* The bindings of this specification carry the keys platform and          *)
(* sender_name, the events the key group_nick.                             *)
(***************************************************************************)
\* the names a member list gives a member ("" when card and nickname are
\* empty)
NickNames == {"", "N"}

\* what the platform does when asked for the member list of a group: the
\* lookup raises, it returns no list, or it returns the names of members
NickAnswers ==
    {[kind |-> "raises", names |-> <<>>], [kind |-> "no_data", names |-> <<>>]}
    \cup {[kind |-> "names", names |-> [m \in Members |->
                                           IF m = "m1" THEN n ELSE "N"]] :
             n \in NickNames}
    \cup {[kind |-> "names", names |-> [m \in {"m2"} |-> "N"]]}

\* _fetch_group_nickname_map: the names by user id, empty for another
\* platform than aiocqhttp, for a lookup that raised and for no data; a
\* member without a name is left out
fetch_group_nickname_map(platform, answer) ==
    IF platform # "aiocqhttp" THEN <<>>
    ELSE IF answer.kind # "names" THEN <<>>
    ELSE [m \in {x \in DOMAIN answer.names : answer.names[x] # ""} |->
             answer.names[m]]

\* the lookup gave the pass no name for the binding
LookupFailed(b, answer) ==
    b.sender_id \notin DOMAIN fetch_group_nickname_map(b.platform, answer)

\* _get_binding_latest_sender_name: the name in the map, else the cached one
get_binding_latest_sender_name(b, answer) ==
    LET map == fetch_group_nickname_map(b.platform, answer)
        latest == IF b.sender_id \in DOMAIN map THEN map[b.sender_id] ELSE ""
    IN  IF b.group_id = "" \/ b.sender_id = "" THEN b.sender_name
        ELSE OrStr(latest, b.sender_name)

\* a pass that drops the iteration of a binding whose lookup gave no name
named_classify_skipping(b0, player, now_ts, answer) ==
    LET r == classify(b0, player, now_ts)
        name == get_binding_latest_sender_name(b0, answer)
        b == IF name # "" THEN [r.b EXCEPT !.sender_name = name] ELSE r.b
    IN  IF r.ev = <<>> THEN r
        ELSE IF LookupFailed(b0, answer) THEN [b |-> b0, ev |-> <<>>]
        ELSE [b |-> b,
              ev |-> <<[group_nick |-> OrStr(b.sender_name, "unknown")]
                         @@ r.ev[1]>>]

\* the iteration of a binding with the lookup it makes when it appends an
\* event: `if latest_sender_name: b["sender_name"] = latest_sender_name`,
\* and the event's group_nick is the binding's sender_name
named_classify(b0, player, now_ts, answer) ==
    LET r == classify(b0, player, now_ts)
        name == get_binding_latest_sender_name(b0, answer)
        b == IF name # "" THEN [r.b EXCEPT !.sender_name = name] ELSE r.b
    IN  IF r.ev = <<>> THEN r
        ELSE [b |-> b,
              ev |-> <<[group_nick |-> OrStr(b.sender_name, "unknown")]
                         @@ r.ev[1]>>]

\* the groups whose member list the pass asks for
looked_up(snap, pl, now_ts) ==
    {snap[i].group_id : i \in {j \in DOMAIN snap :
                                  Outcome(snap, pl, now_ts, j).ev # <<>>}}

\* the classification of the i-th binding of the snapshot with its lookup
NamedOutcome(snap, pl, now_ts, answers, i) ==
    IF pl[snap[i].steamid64] = Absent \/ snap[i].group_id \notin DOMAIN answers
    THEN Outcome(snap, pl, now_ts, i)
    ELSE named_classify(snap[i], pl[snap[i].steamid64], now_ts,
                        answers[snap[i].group_id])

RECURSIVE NamedSessionChanges(_, _, _, _, _, _)
NamedSessionChanges(snap, pl, now_ts, answers, session, n) ==
    IF n = 0 THEN <<>>
    ELSE NamedSessionChanges(snap, pl, now_ts, answers, session, n - 1)
         \o (IF snap[n].session = session
             THEN NamedOutcome(snap, pl, now_ts, answers, n).ev ELSE <<>>)

\* the documents of the lookup: two members of one group or of two, the
\* first on either platform and with or without a cached name
NickDocuments ==
    {<<[platform |-> pf, sender_name |-> n]
         @@ bind_record("b1", "g1", "m1", "s1", p, 1),
       [platform |-> "aiocqhttp", sender_name |-> "old2"]
         @@ bind_record("b2", g, "m2", "s2", q, 1)>> :
        pf \in {"aiocqhttp", "other"}, n \in {"", "old"}, g \in Groups,
        p \in CmdSummaries, q \in BindSummaries}

InitNick ==
    /\ clock = 1
    /\ bindings \in NickDocuments
    /\ stored = bindings
    /\ pc = "sleep"
    /\ NoPlayerPass
    /\ lock = "free"
    /\ NoNews
    /\ NoCommands
    /\ NoLifecycle

\* the summaries are fetched and every binding of the snapshot is
\* classified; a group's member list is asked for when the first event of
\* one of its bindings is appended
NickClassify ==
    /\ pc = "fetch"
    /\ \E pl \in [Accounts -> PushSummaries \cup {Absent}] :
         /\ players' = pl
         /\ IF \A a \in Accounts : pl[a] = Absent
            THEN /\ pc' = "empty"
                 /\ UNCHANGED <<updates, changes, nick>>
            ELSE /\ pc' = "push"
                 /\ \E answers \in [looked_up(snapshot, pl, clock)
                                       -> NickAnswers] :
                      /\ nick' = answers
                      /\ updates' =
                           [id \in {snapshot[i].id : i \in DOMAIN snapshot} |->
                               NamedOutcome(snapshot, pl, clock, answers,
                                            IndexOf(snapshot, id)).b]
                      /\ changes' =
                           LET sessions ==
                                   {snapshot[i].session : i \in DOMAIN snapshot}
                               of(s) == NamedSessionChanges(
                                            snapshot, pl, clock, answers, s,
                                            Len(snapshot))
                           IN  [s \in {x \in sessions : of(x) # <<>>} |->
                                   of(s)]
    /\ UNCHANGED <<clock, bindings, stored, snapshot, outbox, lastPass, lock,
                   newsVars, cmdVars, poll_task, stop, global_poll_task,
                   tasks, calls, config, poll_interval_sec, delay, enrich,
                   file, loaded, endedSince>>

\* the pass returns (or its exception reaches the loop's handler): its
\* locals, the nickname cache among them, are gone
NickReturn ==
    /\ pc \in {"written", "failed", "empty"}
    /\ pc' = "sleep"
    /\ NoPassLocals
    /\ nick' = <<>>
    /\ UNCHANGED <<clock, bindings, stored, lastPass, lock, newsVars, cmdVars,
                   poll_task, stop, global_poll_task, tasks, calls, config,
                   poll_interval_sec, delay, enrich, file, loaded,
                   endedSince>>

\* every session's push returns with its message sent
NickPush ==
    /\ pc = "push"
    /\ outbox' = {status_message(s) : s \in DOMAIN changes}
    /\ pc' = "write"
    /\ UNCHANGED <<clock, bindings, stored, snapshot, players, updates,
                   changes, lastPass>>
    /\ UNCHANGED otherVars

NextNick ==
    \/ PollSnapshot
    \/ NickClassify
    \/ NickPush
    \/ PollWriteBack
    \/ NickReturn

SpecNick == InitNick /\ [][NextNick]_vars

(***************************************************************************)
(* A longer run of passes over one binding, with the history of its        *)
(* game-ended events: endedSince[id] says that a pass that wrote back      *)
(* emitted a game-ended event for the binding and that no pass that wrote  *)
(* back has observed the binding in a game since.                          *)
(***************************************************************************)
\* the last pass time of the run
MaxSeqClock == 6

\* a document with one binding, bound in any state or without a last_state
SeqDocuments ==
    {<<bind_record("b1", "g1", "m1", "s1", p, 1)>> : p \in PushSummaries}
        \cup {<<unset_record("b1", "g1", "m1", "s1")>>}

InitSeq ==
    /\ clock = 1
    /\ bindings \in SeqDocuments
    /\ stored = bindings
    /\ pc = "sleep"
    /\ NoPlayerPass
    /\ lock = "free"
    /\ NoNews
    /\ NoCommands
    /\ NoLifecycle

\* the loop wakes up one tick later and the pass copies the bindings out
SeqSnapshot ==
    /\ pc = "sleep"
    /\ clock + 1 <= MaxSeqClock
    /\ clock' = clock + 1
    /\ snapshot' = bindings
    /\ pc' = IF bindings = <<>> THEN "empty" ELSE "fetch"
    /\ UNCHANGED <<bindings, stored, players, updates, changes, outbox,
                   lastPass>>
    /\ UNCHANGED otherVars

\* the history after a pass: a pass that wrote back and observed the
\* binding sets the flag with a game-ended event and clears it with an
\* in_game observation
ended_after(id) ==
    LET i == IndexOf(snapshot, id)
    IN  IF pc # "written" \/ i = 0 THEN endedSince[id]
        ELSE IF ~Observed(i) THEN endedSince[id]
        ELSE IF \E k \in DOMAIN EventsOf(i) : IsGameEnded(EventsOf(i)[k])
        THEN TRUE
        ELSE IF Obs(i).state = "in_game" THEN FALSE
        ELSE endedSince[id]

\* the pass returns, or its exception reaches the handler of the loop
SeqReturn ==
    /\ pc \in {"written", "failed", "empty"}
    /\ pc' = "sleep"
    /\ NoPassLocals
    /\ endedSince' = [id \in BindingIds |-> ended_after(id)]
    /\ UNCHANGED <<clock, bindings, stored, lastPass, lock, newsVars, cmdVars,
                   poll_task, stop, global_poll_task, tasks, calls, config,
                   poll_interval_sec, delay, enrich, file, loaded, nick>>

NextSeq ==
    \/ SeqSnapshot
    \/ PushClassify
    \/ PollPush
    \/ PollPushFail
    \/ PollWriteBack
    \/ SeqReturn

SpecSeq == InitSeq /\ [][NextSeq]_vars

(***************************************************************************)
(* _handle_bind with the replies it returns before it looks at the         *)
(* bindings, next to the other handlers that change the bindings.          *)
(***************************************************************************)
\* the texts _handle_bind returns before its first lock-held section: the
\* message is no group message, the target is empty, no API key is
\* configured, the named member is not in the group, _resolve_steamid64
\* finds no account
RejectTexts ==
    {"not in a group", "usage", "no api key", "no such member",
     "unresolved"}

\* the texts of a bind that did not bind
FailureTexts ==
    RejectTexts \cup {"fetch failed", "already bound",
                      "bound by another member"}

\* the handler returns one of its texts before the first lock-held section
BindRejected(t) ==
    /\ FirstIdle(t)
    /\ \E text \in RejectTexts : reply' = [text |-> text, rec |-> NoRecord]
    /\ UNCHANGED <<pollVars, lock, newsVars, cmd, nextId, lifeVars>>

NextBind ==
    \/ \E t \in CmdTasks : BindRejected(t)
    \/ \E t \in CmdTasks : BindReceive(t)
    \/ \E t \in CmdTasks : BindCheck(t)
    \/ \E t \in CmdTasks : BindFetch(t)
    \/ \E t \in CmdTasks : BindFetchFailed(t)
    \/ \E t \in CmdTasks : BindLocked(t)
    \/ \E t \in CmdTasks : BindSaved(t)
    \/ \E t \in CmdTasks : Unbind(t)
    \/ \E t \in CmdTasks : UnbindSaved(t)

SpecBind == InitCmd /\ [][NextBind]_vars

(***************************************************************************)
(* Vocabulary of the loop properties.                                      *)
(***************************************************************************)
\* the list holds the bindings as the pass copied them out
AsBeforePass(list) == list = snapshot

\* the list holds, for every binding of the pass, the pass's updated copy
AsAfterWriteBack(list) ==
    /\ updates # <<>>
    /\ Len(list) = Len(snapshot)
    /\ \A i \in DOMAIN list : list[i] = updates[snapshot[i].id]

\* what int(str(raw).strip()) gives for the configured text
Configured == to_int(strip(config))

(***************************************************************************)
(* C21: a step in which an iteration of the running loop raises (in the    *)
(* fetch or the classification, the dispatch or the save) leaves the task  *)
(* running in a sleep of 20 seconds, whatever the configured interval is;  *)
(* from that sleep the task begins another iteration unless it is          *)
(* cancelled or stopped.                                                   *)
(***************************************************************************)
C21_ErrorRetriesAfterFixedDelay ==
    /\ [][(LoopRuns /\ pc \in PassSteps /\ pc' \notin PassSteps)
            => \/ pc' = "sleep" /\ pc \in {"written", "empty"}
               \/ /\ pc' = "retry"
                  /\ delay' = 20
                  /\ tasks'[LoopTask].status = "running"]_vars
    /\ [](pc = "retry" => delay = 20 /\ ~Done(LoopTask))
    /\ (pc = "retry") ~> (pc \in {"fetch", "empty"} \/ ~LoopRuns)

\* the save of a pass has raised: the task is in its retry sleep, the
\* configured interval is another one, and the document lags behind the
\* list in memory
C21_Witness ==
    /\ pc = "retry"
    /\ LoopRuns
    /\ delay # poll_interval_sec
    /\ stored # bindings

(***************************************************************************)
(* C22: once the loop task is cancelled it takes no further step of a pass *)
(* and it finishes; the bindings list changes only in the write-back of a  *)
(* running pass, to the list that holds every updated copy, and the        *)
(* document changes only in a save, to that whole list; when the cancelled *)
(* task has finished, the list in memory is either as the interrupted pass *)
(* found it or as its write-back left it.                                  *)
(***************************************************************************)
C22_CancelStopsWithoutPartialWrite ==
    /\ [][tasks[LoopTask].status = "cancelling"
            => /\ bindings' = bindings
               /\ pc' = pc \/ Done(LoopTask)']_vars
    /\ (tasks[LoopTask].status = "cancelling") ~> Done(LoopTask)
    /\ [][bindings' # bindings
            => LoopRuns /\ pc = "write" /\ AsAfterWriteBack(bindings')]_vars
    /\ [][stored' # stored
            => /\ pc = "save"
               /\ stored' = bindings'
               /\ AsAfterWriteBack(stored')]_vars
    /\ []((pc \in {"caught", "cancelled"} /\ snapshot # <<>>)
            => AsBeforePass(bindings) \/ AsAfterWriteBack(bindings))

\* the task was cancelled in the save of a pass that changed both bindings:
\* the list in memory is the written-back one, the document the previous one
C22_Witness ==
    /\ pc = "caught"
    /\ Done(LoopTask)
    /\ lock = "free"
    /\ snapshot # <<>>
    /\ \A i \in DOMAIN bindings : bindings[i] # snapshot[i]
    /\ AsAfterWriteBack(bindings)
    /\ AsBeforePass(stored)

(***************************************************************************)
(* C23: the loop task never ends by returning from a handler that caught   *)
(* its cancellation: a cancelled loop task ends in the cancelled state.    *)
(***************************************************************************)
C23_CancellationPropagates ==
    Done(LoopTask) => pc \in {"cancelled", "returned"}

(***************************************************************************)
(* C30: the effective poll interval is at least 10; it is the configured   *)
(* integer when that is 10 or more, 10 when the configured integer is      *)
(* smaller, and 60 when the configured text is no integer; the sleep that  *)
(* follows an iteration that completed takes exactly this interval.        *)
(***************************************************************************)
C30_IntervalClamped ==
    /\ poll_interval_sec \in Nat
    /\ poll_interval_sec >= 10
    /\ (Configured.ok /\ Configured.val >= 10)
         => poll_interval_sec = Configured.val
    /\ (Configured.ok /\ Configured.val < 10) => poll_interval_sec = 10
    /\ ~Configured.ok => poll_interval_sec = 60
    /\ pc = "sleep" => delay = poll_interval_sec

\* the loop sleeps 10 seconds after an iteration under a configured
\* negative integer
C30_Witness ==
    /\ pc = "sleep"
    /\ Configured.ok
    /\ Configured.val < 0
    /\ delay = 10

(***************************************************************************)
(* Vocabulary of the push properties.                                      *)
(***************************************************************************)
\* the fetch of the pass returned some accounts and not all of the snapshot's
PartialFetch ==
    /\ Classified
    /\ \E i \in DOMAIN snapshot : players[snapshot[i].steamid64] = Absent

\* the fetches in which every account has a summary and the accounts the
\* pass fetched have the summary the pass fetched
FullFetches ==
    {pl \in [Accounts -> PushSummaries] :
        \A a \in Accounts : players[a] # Absent => pl[a] = players[a]}

(***************************************************************************)
(* C24: in a pass whose fetch returned some accounts and not the account   *)
(* of a binding, the updated copy of that binding is the copy the pass     *)
(* took, no event is emitted for it, and the write-back leaves it as it    *)
(* was; every binding whose account was returned has the updated copy and  *)
(* the events it has under every fetch that returns all accounts and the   *)
(* same summaries for the returned ones.                                   *)
(***************************************************************************)
C24_AbsentAccountKeepsBinding ==
    PartialFetch =>
        \A i \in DOMAIN snapshot :
            IF players[snapshot[i].steamid64] = Absent
            THEN /\ Upd(i) = snapshot[i]
                 /\ EventsOf(i) = <<>>
                 /\ pc = "written" => Current(snapshot[i].id) = snapshot[i]
            ELSE /\ \A pl \in FullFetches :
                      /\ Upd(i) = Outcome(snapshot, pl, clock, i).b
                      /\ EventsOf(i) = Outcome(snapshot, pl, clock, i).ev
                 /\ Upd(i) = classify(snapshot[i],
                                      players[snapshot[i].steamid64], clock).b
                 /\ pc = "written" => Current(snapshot[i].id) = Upd(i)

\* the pass wrote back after a fetch without the second account: the second
\* binding keeps its marker of a left game, the first one ended its game
\* with an event
C24_Witness ==
    /\ pc = "written"
    /\ players["s1"] # Absent
    /\ players["s2"] = Absent
    /\ bindings[2] = snapshot[2]
    /\ bindings[2].pending_endgame # NoMarker
    /\ bindings[1] # snapshot[1]
    /\ \E k \in DOMAIN EventsOf(1) : IsGameEnded(EventsOf(1)[k])

(***************************************************************************)
(* Vocabulary of the dispatch properties.                                  *)
(***************************************************************************)
\* every session's push of the pass has returned
Pushed == pc \in {"write", "written"}

\* the pushes of the pass have returned or one of them has raised
PushOver == pc \in {"write", "written", "failed"}

\* the ids of the bindings of a sequence of events or of entries
BidsOf(seq) == [k \in DOMAIN seq |-> seq[k].bid]

\* the messages of the pass sent to a session
MessagesTo(session) == SelectSeq(outbox, LAMBDA m : m.session = session)

\* the events of the pass, of every session
PassEvents == events_of(Len(SessionSeq), changes)

\* the first sequence is the second with some elements left out
RECURSIVE IsSubSeq(_, _)
IsSubSeq(a, b) ==
    IF a = <<>> THEN TRUE
    ELSE IF b = <<>> THEN FALSE
    ELSE IF Head(a) = Head(b) THEN IsSubSeq(Tail(a), Tail(b))
    ELSE IsSubSeq(a, Tail(b))

\* the entry the enrichment of the pass built for an event, and whether an
\* exception left _build_change_entry
Built(e) == build_change_entry(e, snapshot[IndexOf(snapshot, e.bid)].session,
                               enrich.answers[e.bid])

\* the entries of the messages of the pass
SentEntries ==
    UNION {{outbox[k].image[j] : j \in DOMAIN outbox[k].image} :
              k \in DOMAIN outbox}

\* the answer the commentary call of the pass got for an event
LlmOf(e) == enrich.answers[e.bid].llm

\* the commentary of the event failed
CommentFailed(e) ==
    LlmOf(e).kind \in {"no_provider", "lookup_raises", "timeout", "call_raises"}

C26_EnrichmentFailureKeepsBatch ==
    (Pushed /\ enrich.rendered) =>
        \A s \in DOMAIN changes :
            /\ Len(MessagesTo(s)) = 1
            /\ Len(MessagesTo(s)[1].image) = Len(changes[s])
            /\ \A k \in DOMAIN changes[s] :
                 LET e == changes[s][k]
                     a == enrich.answers[e.bid]
                     entry == MessagesTo(s)[1].image[k]
                 IN  /\ entry.bid = e.bid
                     /\ ~a.avatar => entry.avatar = "none"
                     /\ ~a.cover => entry.cover = "none"
                     /\ (is_start(e) /\ ~a.playtime)
                          => entry.playtime_text = "unknown"
                     /\ CommentFailed(e) => entry.comment_text = <<>>

(***************************************************************************)
(* C27: _generate_llm_comment is called for an event of the pass exactly   *)
(* when the event is a confirmed end of a game (from in_game to online or  *)
(* offline, not tagged network_jitter); it is not called for an event      *)
(* tagged network_jitter, for the start of a game or for a change between  *)
(* online and offline.                                                     *)
(***************************************************************************)
C27_CommentOnlyForGameEnded ==
    PushOver =>
        \A k \in DOMAIN PassEvents :
            LET e == PassEvents[k]
            IN  /\ (LlmOf(e) # NotAsked) <=> IsGameEnded(e)
                /\ e.network_jitter => LlmOf(e) = NotAsked
                /\ is_start(e) => LlmOf(e) = NotAsked
                /\ (e.old_state \in EndStates /\ e.new_state \in EndStates)
                     => LlmOf(e) = NotAsked

\* a pass with a confirmed end of a game, whose commentary the provider
\* wrote, and with a return to the game tagged network_jitter
C27_Witness ==
    /\ pc = "written"
    /\ \E k \in DOMAIN PassEvents :
         /\ IsGameEnded(PassEvents[k])
         /\ LlmOf(PassEvents[k]).kind = "reply"
    /\ \E k \in DOMAIN PassEvents :
         /\ PassEvents[k].network_jitter
         /\ LlmOf(PassEvents[k]) = NotAsked

(***************************************************************************)
(* C28: the commentary made of a provider's reply has at most 28           *)
(* characters, and when the reply, with its whitespace collapsed and its   *)
(* quotes stripped, has more than 28, the commentary is made of its first  *)
(* characters and ends in a terminal punctuation mark.                     *)
(***************************************************************************)
C28_CommentWithinLimit ==
    PushOver =>
        \A k \in DOMAIN PassEvents :
            LET e == PassEvents[k]
                text == clean_reply(LlmOf(e).text)
                out == Built(e).entry.comment_text
            IN  LlmOf(e).kind = "reply" =>
                    /\ Len(out) <= 28
                    /\ Len(text) > 28 =>
                         /\ out # <<>>
                         /\ out[Len(out)] \in TerminalMarks
                         /\ SubSeq(out, 1, Len(out) - 1)
                              = SubSeq(text, 1, Len(out) - 1)

(***************************************************************************)
(* C29: when the commentary of an event fails (no provider, the lookup of  *)
(* the provider raises, the call times out or raises), no exception leaves *)
(* the enrichment of the event and its commentary is empty, and when the   *)
(* pushes have returned with their cards rendered the entry of the event   *)
(* is in the message of its session.                                       *)
(***************************************************************************)
C29_CommentFailureGivesEmptyText ==
    PushOver =>
        \A k \in DOMAIN PassEvents :
            LET e == PassEvents[k]
            IN  CommentFailed(e) =>
                    /\ ~Built(e).raised
                    /\ Built(e).entry.comment_text = <<>>
                    /\ (Pushed /\ enrich.rendered)
                         => Built(e).entry \in SentEntries

(***************************************************************************)
(* Vocabulary of the store properties.                                     *)
(***************************************************************************)
\* the plugin has loaded the file and the file is as it was read
JustLoaded == pc = "sleep"

\* the file holds a JSON object
HoldsObject == file.kind = "json" /\ file.value.type = "object"

\* the key of the object in the file holds a list
HoldsList(key) ==
    /\ HoldsObject
    /\ key \in DOMAIN file.value.fields
    /\ file.value.fields[key].type = "list"

(***************************************************************************)
(* C31: load_state returns two lists for every state of the file.  A      *)
(* missing file, one that cannot be read or parsed and one that holds no   *)
(* object give two empty lists; in an object, a field that is a list is    *)
(* returned as stored and a field that is missing or no list gives an      *)
(* empty list, each field independently of the other.                      *)
(***************************************************************************)
C31_LoadStateNeverFails ==
    JustLoaded =>
        /\ loaded \in Seq(StoreItems) \X Seq(StoreItems)
        /\ bindings = loaded[1]
        /\ subs = loaded[2]
        /\ ~HoldsObject => loaded = <<<<>>, <<>>>>
        /\ loaded[1] = IF HoldsList("bindings")
                       THEN file.value.fields["bindings"].items ELSE <<>>
        /\ loaded[2] = IF HoldsList("game_subscriptions")
                       THEN file.value.fields["game_subscriptions"].items
                       ELSE <<>>

\* the file holds an object whose bindings are a number and whose
\* subscriptions are a list of two: the subscriptions are loaded
C31_Witness ==
    /\ JustLoaded
    /\ HoldsObject
    /\ "bindings" \in DOMAIN file.value.fields
    /\ file.value.fields["bindings"] = JsonNumber
    /\ loaded[1] = <<>>
    /\ Len(loaded[2]) = 2
    /\ subs = file.value.fields["game_subscriptions"].items

(***************************************************************************)
(* Vocabulary of the nickname properties.                                  *)
(***************************************************************************)
\* the pass asked for the member list of the i-th binding's group and got
\* no name for the binding
NoNameFor(i) ==
    /\ Observed(i)
    /\ snapshot[i].group_id \in DOMAIN nick
    /\ LookupFailed(snapshot[i], nick[snapshot[i].group_id])

\* an event without its group_nick, a binding without its sender_name
Unnamed(r) == [k \in DOMAIN r \ {"group_nick", "sender_name"} |-> r[k]]

(***************************************************************************)
(* C32: when the member lookup of a pass raises, returns no data or is not *)
(* made because the platform is not supported, the binding keeps its       *)
(* sender_name, and its updated copy and its events are those of the       *)
(* classification alone, the events carrying the cached name; apart from   *)
(* the name they equal what every lookup that returns a name gives.        *)
(***************************************************************************)
C32_LookupFailureKeepsName ==
    Classified =>
        \A i \in DOMAIN snapshot :
            NoNameFor(i) =>
                LET b0 == snapshot[i]
                    r == classify(b0, players[b0.steamid64], clock)
                IN  /\ Upd(i).sender_name = b0.sender_name
                    /\ Upd(i) = r.b
                    /\ Len(EventsOf(i)) = Len(r.ev)
                    /\ \A k \in DOMAIN r.ev :
                         /\ Unnamed(EventsOf(i)[k]) = r.ev[k]
                         /\ EventsOf(i)[k].group_nick
                              = OrStr(b0.sender_name, "unknown")
                    /\ pc = "written" => Current(b0.id) = r.b
                    /\ \A a \in NickAnswers :
                         ~LookupFailed(b0, a) =>
                             LET n == named_classify(b0, players[b0.steamid64],
                                                     clock, a)
                             IN  /\ Unnamed(n.b) = Unnamed(Upd(i))
                                 /\ Len(n.ev) = Len(EventsOf(i))
                                 /\ \A k \in DOMAIN n.ev :
                                      Unnamed(n.ev[k]) = Unnamed(EventsOf(i)[k])

\* the member lookup raised in a pass that emitted an event for the first
\* binding: the binding is updated and keeps its cached name
C32_Witness ==
    /\ pc = "written"
    /\ NoNameFor(1)
    /\ nick["g1"].kind = "raises"
    /\ EventsOf(1) # <<>>
    /\ bindings[1].last_state # snapshot[1].last_state
    /\ bindings[1].sender_name = "old"

(***************************************************************************)
(* C33: a bind handler that ends without binding returns one of its texts  *)
(* (the handler has no step that raises), and no step of it has changed    *)
(* the bindings list or the document: a handler changes them only in the   *)
(* section that appends and saves, and that section ends with the reply of *)
(* a successful bind.                                                      *)
(***************************************************************************)
C33_FailedBindChangesNothing ==
    /\ [][(\/ \E t \in CmdTasks : /\ cmd[t].op = "bind"
                                     /\ cmd'[t].op = "idle"
                                     /\ reply'.text # "bound"
            \/ (reply' # reply /\ reply'.text \in RejectTexts))
            => /\ reply'.text \in FailureTexts
               /\ bindings' = bindings
               /\ stored' = stored]_vars
    /\ [][\A t \in CmdTasks :
            (cmd[t].op = "bind" /\ cmd'[t] # cmd[t])
                => /\ (bindings' # bindings) => cmd'[t].pc = "save"
                   /\ (stored' # stored \/ cmd[t].pc = "save")
                        => (cmd'[t].op = "idle" /\ reply'.text = "bound")]_vars

\* a bind found its account bound by another member at the second check:
\* the list and the document hold the other member's binding only
C33_Witness ==
    /\ reply.text = "bound by another member"
    /\ reply.rec # NoRecord
    /\ Len(bindings) = 1
    /\ stored = bindings

(***************************************************************************)
(* C34: the entries of the card a pass sends to a session stand in the     *)
(* order their bindings have in the snapshot of the pass, whichever        *)
(* fetches of the enrichment failed and whichever entries are missing      *)
(* because their enrichment raised; every entry that was built is there.   *)
(***************************************************************************)
C34_EntriesInSnapshotOrder ==
    PushOver =>
        \A k \in DOMAIN outbox :
            LET image == outbox[k].image
                events == changes[outbox[k].session]
            IN  /\ \A i, j \in DOMAIN image :
                     i < j => IndexOf(snapshot, image[i].bid)
                                < IndexOf(snapshot, image[j].bid)
                /\ \A i \in DOMAIN events :
                     ~Built(events[i]).raised
                         => \E j \in DOMAIN image :
                              image[j] = Built(events[i]).entry

\* a card with the entries of two bindings, the enrichment of the first of
\* which lost a fetch
C34_Witness ==
    /\ pc = "write"
    /\ \E k \in DOMAIN outbox :
         /\ Len(outbox[k].image) = 2
         /\ outbox[k].image[1].bid = snapshot[1].id
         /\ outbox[k].image[2].bid = snapshot[2].id
         /\ outbox[k].image[1].avatar = "none"
         /\ outbox[k].image[2].avatar = "image"

(***************************************************************************)
(* C35: in every state reached from documents without a marker, a binding  *)
(* of self._bindings, of the persisted document, of the snapshot of a pass *)
(* or of its updates that carries a pending_endgame marker has last_state  *)
(* online or offline, equal to the pending_state of its marker; a binding  *)
(* whose last_state is in_game or unset carries no marker.                 *)
(***************************************************************************)
MarkerConsistent(b) ==
    /\ b.pending_endgame.set
         => /\ b.last_state \in EndStates
            /\ b.pending_endgame.pending_state = b.last_state
    /\ b.last_state \in {"in_game", ""} => b.pending_endgame = NoMarker

C35_MarkerOnlyWithEndState ==
    /\ \A i \in DOMAIN bindings : MarkerConsistent(bindings[i])
    /\ \A i \in DOMAIN stored : MarkerConsistent(stored[i])
    /\ \A i \in DOMAIN snapshot : MarkerConsistent(snapshot[i])
    /\ \A id \in DOMAIN updates : MarkerConsistent(updates[id])

\* a pass wrote a marker back for a binding that left its game, and the
\* next pass has seen the account in a game again
C35_Witness ==
    /\ pc = "written"
    /\ snapshot[1].pending_endgame.set
    /\ snapshot[1].last_state = "offline"
    /\ Observed(1)
    /\ bindings[1].last_state = "in_game"
    /\ bindings[1].pending_endgame = NoMarker

(***************************************************************************)
(* Vocabulary of the marker properties.                                    *)
(***************************************************************************)
\* the i-th binding of the snapshot carries a marker and is still bound
MarkerAtSnapshot(i) ==
    /\ snapshot[i].pending_endgame.set
    /\ IndexOf(bindings, snapshot[i].id) # 0

\* the pass is over: it wrote back, or it ended without its write-back
PassOver == pc \in {"written", "failed"}

(***************************************************************************)
(* C36 as stated: when a pass that observed the account of a binding with  *)
(* a marker is over, the binding carries no marker.                        *)
(***************************************************************************)
C36_MarkerNeverSurvivesObservedPass ==
    PassOver =>
        \A i \in DOMAIN snapshot :
            (MarkerAtSnapshot(i) /\ Observed(i))
                => Current(snapshot[i].id).pending_endgame = NoMarker

(***************************************************************************)
(* C36 amended: a pass that observes the account of a binding with a       *)
(* marker clears the marker in its updated copy and, when the session is   *)
(* not empty, computes exactly one event for the binding, a game-ended     *)
(* event or an event tagged network_jitter; once the pass has written      *)
(* back, the binding carries no marker.  A pass in which the account is    *)
(* missing from the summaries computes no event for the binding and keeps  *)
(* the binding, marker included, and a marker that is still there after a  *)
(* written-back pass is the marker of a binding whose account was missing. *)
(* A pass that observed the account and ended without its write-back       *)
(* leaves the marker in self._bindings.                                    *)
(***************************************************************************)
C36_MarkerClearedByObservedWrittenPass ==
    Classified =>
        \A i \in DOMAIN snapshot :
            snapshot[i].pending_endgame.set =>
                /\ Observed(i) =>
                     /\ Upd(i).pending_endgame = NoMarker
                     /\ snapshot[i].session # ""
                          => /\ Len(EventsOf(i)) = 1
                             /\ \/ IsGameEnded(EventsOf(i)[1])
                                \/ EventsOf(i)[1].network_jitter
                     /\ pc = "written"
                          => Current(snapshot[i].id).pending_endgame = NoMarker
                /\ ~Observed(i) =>
                     /\ Upd(i) = snapshot[i]
                     /\ EventsOf(i) = <<>>
                     /\ pc = "written" => Current(snapshot[i].id) = snapshot[i]
                /\ (pc = "written"
                      /\ Current(snapshot[i].id).pending_endgame.set)
                     => ~Observed(i)
                /\ pc = "failed" => Current(snapshot[i].id) = snapshot[i]

\* a written-back pass that cleared the marker of the binding it observed
\* and kept the marker of the binding whose account was missing
C36_Witness ==
    /\ pc = "written"
    /\ snapshot[1].pending_endgame.set
    /\ snapshot[2].pending_endgame.set
    /\ Observed(1)
    /\ ~Observed(2)
    /\ Len(EventsOf(1)) = 1
    /\ bindings[1].pending_endgame = NoMarker
    /\ bindings[2].pending_endgame = snapshot[2].pending_endgame

(***************************************************************************)
(* C37: counting the passes that wrote back, after a game-ended event of a *)
(* binding no pass computes another game-ended event for it until a pass   *)
(* has observed it in a game: while the binding toggles between online and *)
(* offline, each pass computes at most one event for it, a plain change    *)
(* between online and offline.                                             *)
(***************************************************************************)
C37_OneGameEndedPerGame ==
    Classified =>
        \A i \in DOMAIN snapshot :
            (endedSince[snapshot[i].id] /\ Observed(i)) =>
                /\ \A k \in DOMAIN EventsOf(i) : ~IsGameEnded(EventsOf(i)[k])
                /\ Obs(i).state \in EndStates =>
                     /\ Len(EventsOf(i)) <= 1
                     /\ \A k \in DOMAIN EventsOf(i) :
                          /\ EventsOf(i)[k].old_state \in EndStates
                          /\ EventsOf(i)[k].new_state \in EndStates
                          /\ EventsOf(i)[k].old_state # EventsOf(i)[k].new_state
                          /\ ~EventsOf(i)[k].network_jitter
                          /\ EventsOf(i)[k].session_secs = 0

\* after the game-ended event the binding toggled, which gave a plain
\* event
C37_Witness ==
    /\ pc = "written"
    /\ endedSince["b1"]
    /\ snapshot[1].last_state = "offline"
    /\ Obs(1).state = "online"
    /\ Len(EventsOf(1)) = 1
    /\ EventsOf(1)[1].old_state = "offline"

(***************************************************************************)
(* Vocabulary of the failed pass.                                          *)
(***************************************************************************)
\* an event without the duration that depends on the time of the pass
Timeless(e) == [e EXCEPT !.session_secs = 0]

\* the events a pass at a later time computes from self._bindings when it
\* observes the summaries of this pass again, session by session
Reemitted(d) == poll_changes(bindings, players, clock + d)

\* the pass ended without its write-back: self._bindings and the document
\* are those of the snapshot, and a later pass that observes the same
\* states computes the events of this pass again, the dispatched ones
\* included
FailedPassKeepsBindings ==
    pc = "failed" =>
        /\ bindings = snapshot
        /\ stored = snapshot
        /\ \A d \in 1..MaxTick :
             /\ DOMAIN Reemitted(d) = DOMAIN changes
             /\ \A s \in DOMAIN changes :
                  /\ Len(Reemitted(d)[s]) = Len(changes[s])
                  /\ \A k \in DOMAIN changes[s] :
                       Timeless(Reemitted(d)[s][k]) = Timeless(changes[s][k])

\* nothing is written before the pushes of the pass are over
DispatchBeforeWriteBack ==
    pc \in {"fetch", "push", "write"} => (bindings = snapshot /\ stored = snapshot)

(***************************************************************************)
(* C38: the messages of a pass are dispatched before its write-back; a     *)
(* pass in which the rendering or the dispatch of a session raised ends    *)
(* without its write-back, self._bindings and the document stay those of   *)
(* the snapshot and a later pass that observes the same states computes    *)
(* its events again; and a pass in which the enrichment of an event raised *)
(* does not write back either.                                             *)
(***************************************************************************)
C38_FailedPushSkipsWriteBack ==
    /\ DispatchBeforeWriteBack
    /\ FailedPassKeepsBindings
    /\ pc = "written"
         => \A k \in DOMAIN PassEvents : ~Built(PassEvents[k]).raised

(***************************************************************************)
(* C39: the write-back of a pass keeps the ids of self._bindings and their *)
(* order; it replaces a binding whose id is in the snapshot by the updated *)
(* copy of the pass and leaves every other binding as it is, so a binding  *)
(* appended by bind during the pass keeps its fields and a binding removed *)
(* by unbind during the pass does not come back.                           *)
(***************************************************************************)
C39_WriteBackOnlySnapshotIds ==
    [][(pc = "write" /\ pc' = "save") =>
          /\ DOMAIN bindings' = DOMAIN bindings
          /\ \A i \in DOMAIN bindings :
               /\ bindings'[i].id = bindings[i].id
               /\ IF IndexOf(snapshot, bindings[i].id) # 0
                  THEN bindings'[i] = updates[bindings[i].id]
                  ELSE bindings'[i] = bindings[i]
          /\ \A j \in DOMAIN snapshot :
               IndexOf(bindings, snapshot[j].id) = 0
                   => IndexOf(bindings', snapshot[j].id) = 0]_vars

\* the write-back of a pass during which the binding of its snapshot was
\* unbound and another binding was bound: the list holds the new binding
\* only, as bind built it
C39_Witness ==
    /\ pc = "save"
    /\ snapshot # <<>>
    /\ IndexOf(bindings, snapshot[1].id) = 0
    /\ updates[snapshot[1].id] # snapshot[1]
    /\ bindings # <<>>
    /\ \A i \in DOMAIN bindings : IndexOf(snapshot, bindings[i].id) = 0
    /\ stored = bindings

(***************************************************************************)
(* C40: a pass that fetches a gid for a subscription whose last_news_gid   *)
(* is empty sends no message for the subscription; its entry of `updates`  *)
(* is the subscription with the fetched gid, and once the pass has written *)
(* back, self._game_subscriptions and the document hold that gid.  Every   *)
(* message of a pass is for a subscription that had a gid, other than the  *)
(* fetched one.                                                            *)
(***************************************************************************)
C40_FirstGidIsBaseline ==
    /\ \A i \in DOMAIN nsnap :
         LET s == nsnap[i]
         IN  (s.last_news_gid = "" /\ s.id \in DOMAIN nupdates
                /\ fetched[s.id].found /\ fetched[s.id].gid # "") =>
                 /\ SentFor(newsOutbox, s.id) = 0
                 /\ nupdates[s.id]
                      = [s EXCEPT !.last_news_gid = fetched[s.id].gid]
                 /\ pc = "nwritten" =>
                      /\ CurrentSub(s.id).last_news_gid = fetched[s.id].gid
                      /\ StoredSub(s.id).last_news_gid = fetched[s.id].gid
    /\ \A k \in DOMAIN newsOutbox :
         LET s == nsnap[IndexOf(nsnap, newsOutbox[k].sid)]
         IN  /\ s.last_news_gid # ""
             /\ s.last_news_gid # newsOutbox[k].gid

\* a subscription made while the news fetch failed got its first gid in a
\* pass that wrote back and sent nothing
C40_Witness ==
    /\ pc = "nwritten"
    /\ newsOutbox = <<>>
    /\ \E i \in DOMAIN nsnap :
         /\ nsnap[i].id \in {SubIdSeq[MaxSubs + k] : k \in 1..MaxIds}
         /\ nsnap[i].last_news_gid = ""
         /\ fetched[nsnap[i].id].gid = "n1"
         /\ StoredSub(nsnap[i].id).last_news_gid = "n1"

=========================================================================
